---- MODULE Spec2Model ----
(***************************************************************************)
(* Model of src/src/concurrency.ts: the ConcurrencyController (execute,    *)
(* processQueue, runningCount, queueCount) and concurrentMap.              *)
(*                                                                         *)
(* JavaScript runs one synchronous step at a time.  Every action below is  *)
(* one such step: a call of execute by user code, the settlement of a      *)
(* task's own promise, or the microtask that resumes an async function     *)
(* after its await.                                                        *)
(***************************************************************************)
EXTENDS Integers, Sequences, FiniteSets, TLC

\* ---------------------------------------------------------------- bounds
MaxTasks == 3
MaxLimit == 2

TaskIds == 1..MaxTasks
CtorLimits == (0 - 1)..MaxLimit
Vals == {"v1", "v2"}

\* ------------------------------------------------------------- data types
\* The state of a promise: pending, or settled with a value / a reason.
Pending == [status |-> "pending", val |-> "none"]
Fulfilled(v) == [status |-> "fulfilled", val |-> v]
Rejected(r) == [status |-> "rejected", val |-> r]
Outcomes == {Fulfilled(v) : v \in Vals} \cup {Rejected(r) : r \in Vals}

\* A Task<T> is a zero-argument callable.  Invoked, it either throws
\* synchronously with a reason or returns a promise that settles later.
AsyncTask == [throws |-> FALSE, reason |-> "none"]
ThrowingTask(r) == [throws |-> TRUE, reason |-> r]
TaskKinds == {AsyncTask} \cup {ThrowingTask(r) : r \in Vals}

Max(a, b) == IF a >= b THEN a ELSE b

VARIABLES
  ctorLimit,  \* the argument the controller was constructed with
  ctrl,       \* the controller and the tasks passed to it
  mapPc,      \* concurrentMap: "idle", "awaiting", "returned"
  mapN,       \* concurrentMap: tasks.length
  mapLimit,   \* concurrentMap: the limit argument
  mapCtrl,    \* concurrentMap: its internal controller
  mapCb,      \* concurrentMap: the promise of each tasks.map callback
  results,    \* concurrentMap: the results array (index -> TaskResult)
  mapOrder,   \* concurrentMap: the indices in the order results were written
  mapPromise, \* concurrentMap: the promise concurrentMap returned
  bat,        \* batchExecute: one call (locals, tasks, returned promise)
  rt,         \* retry: one call
  wt,         \* withTimeout: one call
  em,         \* an EventEmitter and the callbacks subscribed to it
  ht,         \* http: the requests made through request() and the cache
  uq,         \* http: one useRequest hook
  db,         \* one debounced function
  th,         \* one throttled function
  nest,       \* a controller whose tasks call execute on it
  ctw         \* a controller whose tasks are wrapped in withTimeout

ctrlVars == <<ctorLimit, ctrl>>
mapVars == <<mapPc, mapN, mapLimit, mapCtrl, mapCb, results, mapOrder, mapPromise>>
moreVars == <<ht, uq, db, th, nest, ctw>>
restVars == <<bat, rt, wt, em, moreVars>>
vars == <<ctorLimit, ctrl, mapPc, mapN, mapLimit, mapCtrl, mapCb, results, mapOrder, mapPromise,
          bat, rt, wt, em, ht, uq, db, th, nest, ctw>>

\* --------------------------------------------------- ConcurrencyController
\* A controller record holds the object's fields (limit, running, queue)
\* together with what is known of each task passed to execute:
\*   kind[t]     the task as passed in
\*   st[t]       "none"     not submitted
\*               "queued"   its run thunk sits in queue
\*               "running"  task() was invoked, its promise is pending
\*               "settled"  its promise settled, run has not resumed yet
\*               "done"     run has finished (after finally)
\*   out[t]      the outcome of the task's own invocation
\*   promise[t]  the promise execute returned for it
\*   submitted   the task ids in the order execute was called
\*   started     the task ids in the order task() was invoked
\*   waited      the task ids whose thunk was ever pushed on queue

\* (variant: the constructor stores limit unclamped)
ConstructNoClamp(limit) ==
  [limit |-> limit,
   running |-> 0,
   queue |-> <<>>,
   kind |-> [t \in TaskIds |-> AsyncTask],
   st |-> [t \in TaskIds |-> "none"],
   out |-> [t \in TaskIds |-> Pending],
   promise |-> [t \in TaskIds |-> Pending],
   submitted |-> <<>>,
   started |-> <<>>,
   waited |-> {}]

\* constructor: this.limit = Math.max(1, limit); running = 0; queue = []
Construct(limit) ==
  [limit |-> Max(1, limit),
   running |-> 0,
   queue |-> <<>>,
   kind |-> [t \in TaskIds |-> AsyncTask],
   st |-> [t \in TaskIds |-> "none"],
   out |-> [t \in TaskIds |-> Pending],
   promise |-> [t \in TaskIds |-> Pending],
   submitted |-> <<>>,
   started |-> <<>>,
   waited |-> {}]

\* get runningCount / get queueCount
runningCount(c) == c.running
queueCount(c) == Len(c.queue)

\* resolve(result) in run's try block
RunResolve(c, t) == [c EXCEPT !.promise[t] = Fulfilled(c.out[t].val)]

\* (variant: the catch block resolves with the error instead of rejecting)
RunRejectAsResolve(c, t) == [c EXCEPT !.promise[t] = Fulfilled(c.out[t].val)]

\* reject(error) in run's catch block
RunReject(c, t) == [c EXCEPT !.promise[t] = Rejected(c.out[t].val)]

\* try/catch of run once the outcome of task() is known
RunSettle(c, t) ==
  IF c.out[t].status = "fulfilled" THEN RunResolve(c, t) ELSE RunReject(c, t)

\* (variant: the finally block forgets this.running--)
RunReleaseNoDecrement(c, t) == [c EXCEPT !.st[t] = "done"]

\* this.running-- in run's finally block
RunRelease(c, t) == [c EXCEPT !.running = @ - 1, !.st[t] = "done"]

\* this.running++ and the invocation of task() at the head of run
RunEnter(c, t) == [c EXCEPT !.running = @ + 1, !.started = Append(@, t)]

\* (variant: the admission test is off by one)
HasCapacityOffByOne(c) == c.running <= c.limit

\* the admission test of execute
HasCapacity(c) == c.running < c.limit

\* queue.shift(): the thunk processQueue takes
QueueNext(c) == Head(c.queue)
QueueRest(c) == Tail(c.queue)

\* (variant: queue.unshift(run))
QueueUnshift(c, t) ==
  [c EXCEPT !.queue = <<t>> \o @, !.st[t] = "queued", !.waited = @ \cup {t}]

\* queue.push(run)
QueuePush(c, t) ==
  [c EXCEPT !.queue = Append(@, t), !.st[t] = "queued", !.waited = @ \cup {t}]

RECURSIVE Run(_, _)

\* processQueue(): start at most one queued thunk when a slot is free
ProcessQueue(c) ==
  IF Len(c.queue) > 0 /\ HasCapacity(c)
    THEN Run([c EXCEPT !.queue = QueueRest(c)], QueueNext(c))
    ELSE c

\* (variant: the finally block forgets this.processQueue())
RunFinallyNoProcess(c, t) == RunRelease(c, t)

\* the finally block of run: this.running--; this.processQueue()
RunFinally(c, t) == ProcessQueue(RunRelease(c, t))

\* (variant: a synchronous throw of task() releases the slot but does not
\* look at the queue)
RunThrowNoDrain(c, t) ==
  IF c.kind[t].throws
    THEN RunRelease(
           RunSettle([RunEnter(c, t) EXCEPT !.out[t] = Rejected(c.kind[t].reason)], t), t)
    ELSE [RunEnter(c, t) EXCEPT !.st[t] = "running"]

\* run(), up to its await.  A task that throws synchronously never reaches
\* the await: catch and finally run in the same synchronous step.
Run(c, t) ==
  IF c.kind[t].throws
    THEN RunFinally(
           RunSettle([RunEnter(c, t) EXCEPT !.out[t] = Rejected(c.kind[t].reason)], t), t)
    ELSE [RunEnter(c, t) EXCEPT !.st[t] = "running"]

\* (variant: no finally; the slot is released at the end of the try block only)
RunResumeNoFinally(c, t) ==
  IF c.out[t].status = "fulfilled"
    THEN RunFinally(RunSettle(c, t), t)
    ELSE [RunSettle(c, t) EXCEPT !.st[t] = "done"]

\* run() after its await: try or catch, then finally
RunResume(c, t) == RunFinally(RunSettle(c, t), t)

\* (variant: the else is missing, the thunk is queued even when it was run)
ExecuteNoElse(c, t, k) ==
  LET c1 == [c EXCEPT !.kind[t] = k, !.submitted = Append(@, t)]
  IN IF HasCapacity(c1) THEN QueuePush(Run(c1, t), t) ELSE QueuePush(c1, t)

\* execute(task): run now when a slot is free, otherwise queue the thunk
Execute(c, t, k) ==
  LET c1 == [c EXCEPT !.kind[t] = k, !.submitted = Append(@, t)]
  IN IF HasCapacity(c1) THEN Run(c1, t) ELSE QueuePush(c1, t)

\* the task's own promise settles (an event outside the controller)
TaskSettled(c, t, o) == [c EXCEPT !.st[t] = "settled", !.out[t] = o]

\* ---------------------------------------------------------- concurrentMap
\* A JavaScript array: a function from the indices that were assigned
\* (0-based) to their elements; length is the largest index plus one, and
\* an index below length that was never assigned is a hole.
Undefined == "undefined"
EmptyArray == [i \in {} |-> Undefined]
ArrayLength(a) ==
  IF DOMAIN a = {} THEN 0
  ELSE (CHOOSE i \in DOMAIN a : \A j \in DOMAIN a : j <= i) + 1

\* (variant: results.push(r) instead of results[index] = r)
ArrayPush(a, idx, r) ==
  [i \in DOMAIN a \cup {ArrayLength(a)} |-> IF i = ArrayLength(a) THEN r ELSE a[i]]

\* results[index] = r
ArraySet(a, idx, r) ==
  [i \in DOMAIN a \cup {idx} |-> IF i = idx THEN r ELSE a[i]]

\* the TaskResult literals of the tasks.map callback
FulfilledResult(value, index) ==
  [status |-> "fulfilled", value |-> value, reason |-> Undefined, index |-> index]
RejectedResult(reason, index) ==
  [status |-> "rejected", value |-> Undefined, reason |-> reason, index |-> index]

\* (variant: the callback has no try/catch around await controller.execute)
MapCallbackNoCatch(res, index, p) ==
  IF p.status = "fulfilled"
    THEN [results |-> ArraySet(res, index, FulfilledResult(p.val, index)),
          promise |-> Fulfilled(Undefined)]
    ELSE [results |-> res, promise |-> Rejected(p.val)]

\* the tasks.map callback after its await: p is the settled promise of
\* controller.execute(task); gives the results array and the callback's
\* own promise
MapCallback(res, index, p) ==
  IF p.status = "fulfilled"
    THEN [results |-> ArraySet(res, index, FulfilledResult(p.val, index)),
          promise |-> Fulfilled(Undefined)]
    ELSE [results |-> ArraySet(res, index, RejectedResult(p.val, index)),
          promise |-> Fulfilled(Undefined)]

\* (variant: the callback awaits task() itself instead of
\* controller.execute(task))
RECURSIVE MapSubmitUngated(_, _, _)
MapSubmitUngated(c, tasks, i) ==
  IF i > Len(tasks) THEN c
  ELSE MapSubmitUngated(
         Run([c EXCEPT !.kind[i] = tasks[i], !.submitted = Append(@, i)], i), tasks, i + 1)

\* tasks.map(...): the callbacks run synchronously in index order, each up
\* to its await, so execute is called for every task in array order
RECURSIVE MapSubmit(_, _, _)
MapSubmit(c, tasks, i) ==
  IF i > Len(tasks) THEN c
  ELSE MapSubmit(Execute(c, i, tasks[i]), tasks, i + 1)

\* Promise.all(promises): rejected as soon as one promise is rejected,
\* fulfilled once all are fulfilled
PromiseAll(cb, n) ==
  IF \E t \in 1..n : cb[t].status = "rejected"
    THEN Rejected(cb[CHOOSE t \in 1..n : cb[t].status = "rejected"].val)
  ELSE IF \A t \in 1..n : cb[t].status = "fulfilled"
    THEN Fulfilled(Undefined)
  ELSE Pending

\* the promise concurrentMap returned, once await Promise.all has settled
MapResult(all, res) ==
  IF all.status = "fulfilled" THEN [status |-> "fulfilled", val |-> res] ELSE all

\* ----------------------------------------------------------- batchExecute
\* One call of batchExecute(tasks, batchSize, delay).  The record holds the
\* function's locals and what is known of each task (ids 1..n; the task
\* at array index g has id g + 1):
\*   pc        "idle", "batch" (at await Promise.all), "delay" (at the
\*             await of the inter-batch timer), "returned"
\*   i         the loop variable
\*   st[t]     "none", "running" (task() invoked, promise pending),
\*             "settled" (promise settled, callback not resumed), "done"
\*   cb[t]     the promise of the batch.map callback of task t
\*   started   the task ids in the order task() was invoked
\*   delays    the number of inter-batch timers started
MaxDelays == 3
BatchSizes == 0..MaxTasks
BatchDelays == {0, 100}

BatchNew ==
  [pc |-> "idle", n |-> 0, size |-> 1, delay |-> 0, i |-> 0,
   kind |-> [t \in TaskIds |-> AsyncTask],
   st |-> [t \in TaskIds |-> "none"],
   out |-> [t \in TaskIds |-> Pending],
   cb |-> [t \in TaskIds |-> Pending],
   results |-> EmptyArray,
   started |-> <<>>,
   delays |-> 0,
   promise |-> Pending]

\* tasks.slice(i, i + batchSize)
BatchChunk(b) == {t \in TaskIds : b.i < t /\ t <= b.i + b.size /\ t <= b.n}

\* (variant: the result is stored at the chunk-local index)
BatchLocalIndex(b, t) == (t - 1) - b.i

\* const globalIndex = i + batchIndex, for the task with id t
BatchGlobalIndex(b, t) == b.i + ((t - 1) - b.i)

\* the try/catch of the batch.map callback once the outcome o of task() is
\* known: store the TaskResult, the callback's promise fulfils
BatchCallback(b, t, o) ==
  [b EXCEPT
     !.results = ArraySet(@, BatchGlobalIndex(b, t),
                   IF o.status = "fulfilled"
                     THEN FulfilledResult(o.val, BatchGlobalIndex(b, t))
                     ELSE RejectedResult(o.val, BatchGlobalIndex(b, t))),
     !.out[t] = o,
     !.st[t] = "done",
     !.cb[t] = Fulfilled(Undefined)]

\* the batch.map callback of task t up to its await: task() is invoked; a
\* synchronous throw is caught in the same step
BatchInvoke(b, t) ==
  LET b1 == [b EXCEPT !.started = Append(@, t)]
  IN IF b.kind[t].throws
       THEN BatchCallback(b1, t, Rejected(b.kind[t].reason))
       ELSE [b1 EXCEPT !.st[t] = "running"]

\* batch.map(...): the callbacks of the chunk run in index order
RECURSIVE BatchMap(_, _)
BatchMap(b, t) ==
  IF t \in BatchChunk(b) THEN BatchMap(BatchInvoke(b, t), t + 1) ELSE b

\* (variant: Promise.race(batchPromises) instead of Promise.all)
BatchRace(b) ==
  IF \E t \in BatchChunk(b) : b.cb[t].status = "rejected"
    THEN Rejected(b.cb[CHOOSE t \in BatchChunk(b) : b.cb[t].status = "rejected"].val)
  ELSE IF BatchChunk(b) = {} \/ \E t \in BatchChunk(b) : b.cb[t].status = "fulfilled"
    THEN Fulfilled(Undefined)
  ELSE Pending

\* Promise.all(batchPromises)
BatchAll(b) ==
  IF \E t \in BatchChunk(b) : b.cb[t].status = "rejected"
    THEN Rejected(b.cb[CHOOSE t \in BatchChunk(b) : b.cb[t].status = "rejected"].val)
  ELSE IF \A t \in BatchChunk(b) : b.cb[t].status = "fulfilled"
    THEN Fulfilled(Undefined)
  ELSE Pending

\* the loop test i < tasks.length: start the next chunk and reach
\* await Promise.all, or leave the loop and return results
BatchLoop(b) ==
  IF b.i < b.n
    THEN [BatchMap(b, b.i + 1) EXCEPT !.pc = "batch"]
    ELSE [b EXCEPT !.pc = "returned", !.promise = [status |-> "fulfilled", val |-> b.results]]

\* (variant: the loop index advances by at least one)
BatchAdvanceAtLeastOne(b) == BatchLoop([b EXCEPT !.i = @ + Max(1, b.size)])

\* i += batchSize, then the loop test
BatchAdvance(b) == BatchLoop([b EXCEPT !.i = @ + b.size])

\* (variant: the delay is taken after every chunk, the last one included)
BatchNeedsDelayAlways(b) == b.delay > 0

\* delay > 0 && i + batchSize < tasks.length
BatchNeedsDelay(b) == b.delay > 0 /\ b.i + b.size < b.n

\* after await Promise.all(batchPromises): a rejection leaves the function,
\* otherwise the inter-batch timer is started or the loop goes on
BatchAfterAll(b, all) ==
  IF all.status = "rejected"
    THEN [b EXCEPT !.pc = "returned", !.promise = all]
  ELSE IF BatchNeedsDelay(b)
    THEN [b EXCEPT !.pc = "delay", !.delays = @ + 1]
  ELSE BatchAdvance(b)

\* batchExecute(tasks, batchSize, delay) up to its first await
BatchStart(n, size, delay, tasks) ==
  BatchLoop([BatchNew EXCEPT
               !.n = n, !.size = size, !.delay = delay,
               !.kind = [t \in TaskIds |-> IF t <= n THEN tasks[t] ELSE AsyncTask]])

\* ------------------------------------------------------------------ retry
\* One call of retry(task, maxRetries, retryDelay).  The record holds the
\* function's locals and a log of what it did:
\*   pc        "idle", "attempt" (at await task(), promise pending),
\*             "settled" (the promise settled, retry not resumed yet),
\*             "wait" (at the await of the retry timer), "returned"
\*   attempt   the loop variable
\*   calls     the number of invocations of task
\*   hist      the outcomes of the finished invocations, in order
\*   timers    the delays passed to setTimeout, in order
MaxRetries == 2
RetryCounts == (0 - 1)..MaxRetries
RetryDelays == {10, 1000}

RetryNew ==
  [pc |-> "idle", maxRetries |-> 0, retryDelay |-> 0, attempt |-> 0,
   calls |-> 0, hist |-> <<>>, lastError |-> Undefined, timers |-> <<>>,
   promise |-> Pending]

\* (variant: the loop runs maxRetries times in all)
RetryLoopTestOffByOne(r) == r.attempt < r.maxRetries

\* attempt <= maxRetries
RetryLoopTest(r) == r.attempt <= r.maxRetries

\* (variant: the wait is taken after every failed attempt)
RetryNeedsWaitAlways(r) == TRUE

\* attempt < maxRetries
RetryNeedsWait(r) == r.attempt < r.maxRetries

\* (variant: the delay grows with the attempt number)
RetryTimerBackoff(r) == r.retryDelay * (r.attempt + 1)

\* the delay passed to setTimeout
RetryTimer(r) == r.retryDelay

\* return await task(), the task having fulfilled with v
RetryReturn(r, v) == [r EXCEPT !.pc = "returned", !.promise = Fulfilled(v)]

\* throw lastError after the loop
RetryThrow(r) == [r EXCEPT !.pc = "returned", !.promise = Rejected(r.lastError)]

RECURSIVE RetryLoop(_, _)

\* the catch block: remember the error, then wait for the timer or go on
\* with attempt++ (k: what the task does should it be invoked again)
RetryCatch(r, error, k) ==
  LET r1 == [r EXCEPT !.lastError = error]
  IN IF RetryNeedsWait(r1)
       THEN [r1 EXCEPT !.pc = "wait", !.timers = Append(@, RetryTimer(r1))]
       ELSE RetryLoop([r1 EXCEPT !.attempt = @ + 1], k)

\* the loop test and, inside the loop, the invocation of task; a task that
\* throws synchronously enters the catch block in the same step
RetryLoop(r, k) ==
  IF RetryLoopTest(r)
    THEN LET r1 == [r EXCEPT !.calls = @ + 1]
         IN IF k.throws
              THEN RetryCatch([r1 EXCEPT !.hist = Append(@, Rejected(k.reason))], k.reason, k)
              ELSE [r1 EXCEPT !.pc = "attempt"]
    ELSE RetryThrow(r)

\* retry resumes after await task(): return the value or enter the catch
RetryResume(r, k) ==
  LET o == r.hist[Len(r.hist)]
  IN IF o.status = "fulfilled" THEN RetryReturn(r, o.val) ELSE RetryCatch(r, o.val, k)

\* retry resumes after the timer: attempt++ and the loop test
RetryAfterWait(r, k) == RetryLoop([r EXCEPT !.attempt = @ + 1], k)

\* ------------------------------------------------------------ withTimeout
\* One call of withTimeout(task, timeout).  Time is counted in whole
\* milliseconds since the call.  The record holds:
\*   pc        "idle" or "called"
\*   now       the time elapsed since the call
\*   calls     the number of invocations of task
\*   task      "none", "running" (its promise is pending), "settled"
\*   taskOut   the outcome of the task's own invocation
\*   timer     "none", "armed", "fired"
\*   firedAt   the time at which the timer callback ran (-1: it has not)
\*   events    "task" / "timer" in the order the two events happened
\*   promise   the promise withTimeout returned
MaxTimeout == 2
Timeouts == 0..MaxTimeout

TimeoutNew ==
  [pc |-> "idle", timeout |-> 0, now |-> 0, calls |-> 0, task |-> "none",
   taskOut |-> Pending, timer |-> "none", firedAt |-> 0 - 1, events |-> <<>>,
   promise |-> Pending]

\* the Error created by the timer callback
TimeoutMessage(ms) == "Task timeout after " \o ToString(ms) \o "ms"

\* (variant: the promise follows whichever input settled last)
RaceLastWins(p, o) == o

\* Promise.race: the promise takes the outcome of the first input to settle
RaceSettle(p, o) == IF p.status = "pending" THEN o ELSE p

\* withTimeout(task, timeout): task() is invoked first; when it throws
\* synchronously the async function rejects and no timer is created,
\* otherwise the timer is armed and the race begins
TimeoutStart(timeout, k) ==
  LET w == [TimeoutNew EXCEPT !.pc = "called", !.timeout = timeout, !.calls = 1]
  IN IF k.throws
       THEN [w EXCEPT !.task = "settled", !.taskOut = Rejected(k.reason),
                      !.events = <<"task">>, !.promise = Rejected(k.reason)]
       ELSE [w EXCEPT !.task = "running", !.timer = "armed"]

\* the task's promise settles with o
TimeoutTaskSettled(w, o) ==
  [w EXCEPT !.task = "settled", !.taskOut = o, !.events = Append(@, "task"),
            !.promise = RaceSettle(@, o)]

\* (variant: the timer callback also abandons the task)
TimeoutTimerCancels(w) ==
  [w EXCEPT !.timer = "fired", !.firedAt = w.now, !.events = Append(@, "timer"),
            !.task = IF @ = "running" THEN "cancelled" ELSE @,
            !.promise = RaceSettle(@, Rejected(TimeoutMessage(w.timeout)))]

\* the timer callback: reject(new Error(...)); the task is left alone
TimeoutTimerFired(w) ==
  [w EXCEPT !.timer = "fired", !.firedAt = w.now, !.events = Append(@, "timer"),
            !.promise = RaceSettle(@, Rejected(TimeoutMessage(w.timeout)))]

\* setTimeout(..., timeout): the callback is due once timeout has elapsed
TimeoutDue(w) == w.timer = "armed" /\ w.now >= w.timeout

\* ----------------------------------------------------------- EventEmitter
\* The emitter is a record:
\*   events   event name -> the array of listeners (<<>>: the key is absent;
\*            the code never leaves an empty array under a key)
\*   subs     one entry per on/once call, in call order: the event, the
\*            callback, the wrapper once() made (0 for on) and the number of
\*            times that wrapper has been called (on() calls are not counted)
\*   emits    the number of emit calls made by the program
\*   exc      an exception is propagating
\*   last     what the program's latest call did when it was an emit: its
\*            event and data, the listeners present when it started, the
\*            callbacks its own forEach invoked (in order), the errors it
\*            logged and whether it threw; NoEmit after any other call
\* A listener is [fn, wrap, sub]: on() pushes the callback itself
\* (wrap = 0), once() pushes a fresh wrapper (wrap = the subscription's
\* number); indexOf compares listeners by identity, that is by <<fn, wrap>>.
MaxSubs == 2
MaxEmits == 2
EventNames == {"a", "b"}
EventData == {"d1", "d2"}
\* callbacks by behaviour: "plain" returns, "thrower" throws, "relay" emits
\* the same event with "d2" when it is called with "d1"
Callbacks == {"plain", "thrower", "relay"}

NoEmit ==
  [event |-> "none", data |-> "none", snapshot |-> <<>>, log |-> <<>>,
   errors |-> 0, threw |-> FALSE]

EmitterNew ==
  [events |-> [e \in EventNames |-> <<>>], subs |-> <<>>, emits |-> 0,
   exc |-> FALSE, last |-> NoEmit]

Listener(fn, wrap, sub) == [fn |-> fn, wrap |-> wrap, sub |-> sub]

SameCallback(l, fn, wrap) == l.fn = fn /\ l.wrap = wrap

\* Array.prototype.indexOf: the first matching index, 0 when there is none
IndexOf(cbs, fn, wrap) ==
  LET hits == {i \in 1..Len(cbs) : SameCallback(cbs[i], fn, wrap)}
  IN IF hits = {} THEN 0 ELSE CHOOSE i \in hits : \A j \in hits : i <= j

\* Array.prototype.splice(index, 1)
Splice(cbs, index) ==
  SubSeq(cbs, 1, index - 1) \o SubSeq(cbs, index + 1, Len(cbs))

\* on(event, callback)
On(s, e, fn, wrap) ==
  LET sub == Len(s.subs) + 1
  IN [s EXCEPT !.events[e] = Append(@, Listener(fn, wrap, sub)),
               !.subs = Append(@, [event |-> e, fn |-> fn, wrap |-> wrap,
                                   calls |-> 0])]

\* once(event, callback): on(event, onceCallback) with a fresh wrapper
Once(s, e, fn) == On(s, e, fn, Len(s.subs) + 1)

\* off(event, callback)
Off(s, e, fn, wrap) ==
  LET index == IndexOf(s.events[e], fn, wrap)
  IN IF s.events[e] = <<>> THEN s
     ELSE IF index > 0 THEN [s EXCEPT !.events[e] = Splice(@, index)]
     ELSE s

\* off(event)
OffAll(s, e) == [s EXCEPT !.events[e] = <<>>]

\* clear()
Clear(s) == [s EXCEPT !.events = [e \in EventNames |-> <<>>]]

\* the function on()/once() returned for subscription k
Unsubscribe(s, k) == Off(s, s.subs[k].event, s.subs[k].fn, s.subs[k].wrap)

\* the listener is called: a once() wrapper counts the call, and the
\* program's own emit logs it
Called(s, l, d, depth) ==
  [s EXCEPT !.subs[l.sub].calls = IF l.wrap = 0 THEN @ ELSE @ + 1,
            !.last.log = IF depth = 0
                           THEN Append(@, [sub |-> l.sub, data |-> d])
                           ELSE @]

\* (variant: no try/catch around the callback)
EmitNoCatch(s) == s

\* catch (error) { console.error(...) }
EmitCatch(s) ==
  IF s.exc THEN [s EXCEPT !.exc = FALSE, !.last.errors = @ + 1] ELSE s

\* onceCallback's body after callback(data): this.off(event, onceCallback),
\* not reached when callback threw
OnceAfterCallback(s, e, l) ==
  IF s.exc THEN s ELSE Off(s, e, l.fn, l.wrap)

RECURSIVE Emit(_, _, _, _)
RECURSIVE ForEach(_, _, _, _, _, _)

\* the body of a callback
CallbackBody(s, fn, e, d, depth) ==
  CASE fn = "thrower" -> [s EXCEPT !.exc = TRUE]
    [] fn = "relay" -> IF d = "d1" THEN Emit(s, e, "d2", depth + 1) ELSE s
    [] OTHER -> s

\* calling a listener: the callback itself, or once()'s wrapper
Invoke(s, l, e, d, depth) ==
  LET after == CallbackBody(Called(s, l, d, depth), l.fn, e, d, depth)
  IN IF l.wrap = 0 THEN after ELSE OnceAfterCallback(after, e, l)

\* callbacks.forEach(callback => { try { callback(data) } catch ... })
ForEach(s, cbs, i, e, d, depth) ==
  IF i > Len(cbs) \/ s.exc
    THEN s
    ELSE ForEach(EmitCatch(Invoke(s, cbs[i], e, d, depth)), cbs, i + 1, e, d,
                 depth)

\* emit(event, data): iterates over a copy of the listener array
Emit(s, e, d, depth) ==
  IF s.events[e] = <<>> THEN s ELSE ForEach(s, s.events[e], 1, e, d, depth)

\* an emit call made by the program
EmitCall(s, e, d) ==
  LET begun == [s EXCEPT !.emits = @ + 1,
                         !.last = [NoEmit EXCEPT !.event = e, !.data = d,
                                                 !.snapshot = s.events[e]]]
      ended == Emit(begun, e, d, 0)
  IN [ended EXCEPT !.exc = FALSE, !.last.threw = ended.exc]

\* a call of the program other than emit has returned
Returned(s) == [s EXCEPT !.last = NoEmit]

\* listenerCount(event)
listenerCount(s, e) == Len(s.events[e])

\* eventNames()
eventNames(s) == {e \in EventNames : s.events[e] # <<>>}

\* -------------------------------------------------------------- http.ts
\* The module state of http.ts and the requests made through request():
\*   maxConcurrent    globalConfig.maxConcurrent
\*   runningRequests  the module constant of that name
\*   requestQueue     the queued request closures (request numbers)
\*   req              one record per request() call, in call order
\*   cache            cache key -> entry (present, data, timestamp, ttl)
\*   now              Date.now()
\* No interceptor is registered and retries is 0 (the defaults), so
\* request() runs synchronously up to its fetch call.
MaxRequests == 2
MaxConcurrent == 2
MaxNow == 2
Urls == {"/api/users", "/api/posts"}
Methods == {"GET", "POST"}
CacheTimes == {1, 2}
ClearPatterns == {"", "users", "posts"}
\* the configs passed to request(); cacheTime is given with cache: true
RequestConfigs ==
  {c \in [url : Urls, method : Methods, cache : BOOLEAN,
          cacheTime : CacheTimes] : ~c.cache => c.cacheTime = 1}

\* what a fetch can end with: a response, or a failure
FetchOutcomes == {Fulfilled(v) : v \in Vals} \cup {Rejected("HTTP Error")}

\* getCacheKey: `${method}:${url}:${JSON.stringify({ body, params })}`,
\* for a request without body and params
getCacheKey(config) == config.method \o ":" \o config.url \o ":" \o "{}"

\* getCacheKey tabulated over the configs
CacheKeyOf == [c \in RequestConfigs |-> getCacheKey(c)]

CacheKeys == {CacheKeyOf[c] : c \in RequestConfigs}

NoEntry == [present |-> FALSE, data |-> "none", timestamp |-> 0, ttl |-> 0]

HttpNew ==
  [maxConcurrent |-> 6, runningRequests |-> 0, requestQueue |-> <<>>,
   req |-> <<>>, cache |-> [k \in CacheKeys |-> NoEntry], now |-> 0]

\* setGlobalConfig({ maxConcurrent })
setGlobalConfig(h, m) == [h EXCEPT !.maxConcurrent = m]

\* getFromCache: the entry's age is compared with its ttl
CacheFresh(h, key) ==
  /\ h.cache[key].present
  /\ ~(h.now - h.cache[key].timestamp > h.cache[key].ttl)

\* getFromCache's effect on the cache: an expired entry is deleted
getFromCache(h, key) ==
  IF h.cache[key].present /\ ~CacheFresh(h, key)
    THEN [h EXCEPT !.cache[key] = NoEntry]
    ELSE h

\* setCache(key, data, ttl)
setCache(h, key, data, ttl) ==
  [h EXCEPT !.cache[key] = [present |-> TRUE, data |-> data,
                            timestamp |-> h.now, ttl |-> ttl]]

\* RegExp.prototype.test for a pattern without metacharacters: the
\* pattern occurs somewhere in the key
RegexTest(pattern, key) ==
  \E i \in 1..(Len(key) - Len(pattern) + 1) :
    SubSeq(key, i, i + Len(pattern) - 1) = pattern

\* regex.test(key) tabulated: the keys each pattern matches
MatchedKeys == [p \in ClearPatterns |-> {k \in CacheKeys : RegexTest(p, k)}]

\* (variant: clearCache ignores its pattern)
clearCacheAll(h, pattern) == [h EXCEPT !.cache = [k \in CacheKeys |-> NoEntry]]

\* clearCache(pattern?)
clearCache(h, pattern) ==
  IF pattern = ""
    THEN [h EXCEPT !.cache = [k \in CacheKeys |-> NoEntry]]
    ELSE [h EXCEPT !.cache =
            [k \in CacheKeys |->
               IF k \in MatchedKeys[pattern] THEN NoEntry ELSE h.cache[k]]]

\* shouldCache && processedConfig.method === 'GET'
UsesCache(config) == config.cache /\ config.method = "GET"

NewRequest(config) ==
  [config |-> config, st |-> "none", fetched |-> FALSE, promise |-> Pending]

\* runningRequests >= globalConfig.maxConcurrent
AtLimit(h) == h.runningRequests >= h.maxConcurrent

\* (variant: the cache is not consulted)
RequestNoCacheCheck(h, config) ==
  LET i == Len(h.req) + 1
      h1 == [h EXCEPT !.req = Append(@, NewRequest(config))]
  IN IF AtLimit(h1)
       THEN [h1 EXCEPT !.req[i].st = "queued", !.requestQueue = Append(@, i)]
       ELSE [h1 EXCEPT !.req[i].st = "executing", !.req[i].fetched = TRUE]

\* request(config) up to its first await: the cache check, then either the
\* closure is queued or executeRequestWithInterceptors() calls fetch
Request(h, config) ==
  LET i == Len(h.req) + 1
      key == CacheKeyOf[config]
      h1 == [h EXCEPT !.req = Append(@, NewRequest(config))]
      h2 == IF UsesCache(config) THEN getFromCache(h1, key) ELSE h1
  IN IF UsesCache(config) /\ CacheFresh(h1, key)
       THEN [h1 EXCEPT !.req[i].st = "settled",
                       !.req[i].promise = Fulfilled(h1.cache[key].data)]
     ELSE IF AtLimit(h2)
       THEN [h2 EXCEPT !.req[i].st = "queued", !.requestQueue = Append(@, i)]
     ELSE [h2 EXCEPT !.req[i].st = "executing", !.req[i].fetched = TRUE]

\* the fetch of request i has settled: a response is stored in the cache
\* when the request uses it, and the request's promise settles
Fetched(h, i, o) ==
  LET config == h.req[i].config
      h1 == [h EXCEPT !.req[i].st = "settled", !.req[i].promise = o]
  IN IF o.status = "fulfilled" /\ UsesCache(config)
       THEN setCache(h1, CacheKeyOf[config], o.val, config.cacheTime)
       ELSE h1

\* cancelAllRequests(): activeRequests is empty; the queue is emptied
cancelAllRequests(h) == [h EXCEPT !.requestQueue = <<>>]

\* the requests whose fetch is in flight
Executing(h) == {i \in 1..Len(h.req) : h.req[i].st = "executing"}

\* ------------------------------------------------------------- useRequest
\* One hook created by useRequest(config, { manual }):
\*   pc               "idle" before the call, "created" after it
\*   state            data, error, isLoading, isError, isSuccess
\*   abortController  the run whose controller the variable holds (0: null)
\*   runs             one record per run() call, in call order: whether its
\*                    signal was aborted, its promise
MaxRuns == 3

Null == "null"

UseRequestNew ==
  [pc |-> "idle",
   state |-> [data |-> Null, error |-> Null, isLoading |-> FALSE,
              isError |-> FALSE, isSuccess |-> FALSE],
   abortController |-> 0, runs |-> <<>>]

\* abortController.abort(): the signal of that run is aborted
Abort(u) ==
  IF u.abortController = 0 THEN u
  ELSE [u EXCEPT !.runs[u.abortController].aborted = TRUE]

\* run(): abort the previous request, create a controller, set the loading
\* state, call request() (which runs up to its fetch)
UseRequestRun(u) ==
  LET i == Len(u.runs) + 1
      u1 == Abort(u)
  IN [u1 EXCEPT !.runs = Append(@, [aborted |-> FALSE, promise |-> Pending]),
                !.abortController = i,
                !.state.isLoading = TRUE, !.state.isError = FALSE,
                !.state.error = Null]

\* useRequest(config, options): run() is called unless manual
UseRequestCreate(manual) ==
  LET u == [UseRequestNew EXCEPT !.pc = "created"]
  IN IF manual THEN u ELSE UseRequestRun(u)

\* run i resumes after `await request(...)` returned a response
RunSucceeded(u, i, data) ==
  [u EXCEPT !.runs[i].promise = Fulfilled(data),
            !.state.data = data, !.state.isLoading = FALSE,
            !.state.isSuccess = TRUE]

\* run i resumes in its catch block
RunFailed(u, i, error) ==
  [u EXCEPT !.runs[i].promise = Rejected(error),
            !.state.error = error, !.state.isLoading = FALSE,
            !.state.isError = TRUE, !.state.isSuccess = FALSE]

\* cancel()
UseRequestCancel(u) ==
  IF u.abortController = 0 THEN u
  ELSE [Abort(u) EXCEPT !.state.isLoading = FALSE]

\* the runs whose request has not settled
RunsInFlight(u) ==
  {i \in 1..Len(u.runs) : u.runs[i].promise.status = "pending"}

\* the runs in flight whose signal is aborted: their fetch rejects
RunsAborted(u) == {i \in RunsInFlight(u) : u.runs[i].aborted}

\* ---------------------------------------------------------------- debounce
\* One function made by debounce(func, delay, { immediate }); time in
\* milliseconds:
\*   immediate, delay   the arguments of debounce
\*   timeoutId          the pending timer: armed, and when it is due
\*   lastArgs           Null or the arguments of the last call
\*   now                the current time
\*   calls              the number of calls of the debounced function
\*   lastCall           when the last call was made, and its arguments
\*   invoked            the invocations of func since the last call, each
\*                      with its time, its arguments and what made it
\*   stopped            "cancel" or "flush" when that call has cleared the
\*                      pending timer of the last call, else "no"
MaxTime == 4
MaxCalls == 3
DebounceDelays == {1, 2}
Args == {"a1", "a2"}

NoTimer == [armed |-> FALSE, due |-> 0]

DebounceNew ==
  [pc |-> "idle", immediate |-> FALSE, delay |-> 0, timeoutId |-> NoTimer,
   lastArgs |-> Null, now |-> 0, calls |-> 0,
   lastCall |-> [at |-> 0, args |-> Null], invoked |-> <<>>,
   stopped |-> "no"]

\* debounce(func, delay, options)
Debounce(delay, immediate) ==
  [DebounceNew EXCEPT !.pc = "created", !.delay = delay,
                      !.immediate = immediate]

\* func.apply(..., args)
FuncApply(d, args, by) ==
  [d EXCEPT !.invoked = Append(@, [at |-> d.now, args |-> args, by |-> by])]

\* (variant: a call made while a timer is pending leaves that timer alone)
DebouncedKeepsTimer(d, args) ==
  LET callNow == d.immediate /\ ~d.timeoutId.armed
      d1 == [d EXCEPT !.lastArgs = args, !.calls = @ + 1,
                      !.lastCall = [at |-> d.now, args |-> args],
                      !.invoked = <<>>, !.stopped = "no",
                      !.timeoutId = IF @.armed THEN @
                                    ELSE [armed |-> TRUE, due |-> d.now + d.delay]]
  IN IF callNow THEN FuncApply(d1, args, "call") ELSE d1

\* debounced(...args): the pending timer is cleared and a new one is set
Debounced(d, args) ==
  LET callNow == d.immediate /\ ~d.timeoutId.armed
      d1 == [d EXCEPT !.lastArgs = args, !.calls = @ + 1,
                      !.lastCall = [at |-> d.now, args |-> args],
                      !.invoked = <<>>, !.stopped = "no",
                      !.timeoutId = [armed |-> TRUE, due |-> d.now + d.delay]]
  IN IF callNow THEN FuncApply(d1, args, "call") ELSE d1

\* the timer callback
DebounceTimer(d) ==
  LET d1 == [d EXCEPT !.timeoutId = NoTimer]
  IN IF ~d.immediate /\ d.lastArgs # Null
       THEN FuncApply(d1, d.lastArgs, "timer")
       ELSE d1

\* (variant: cancel() forgets the arguments but leaves the timer)
DebounceCancelKeepsTimer(d) ==
  [d EXCEPT !.lastArgs = Null,
            !.stopped = IF d.timeoutId.armed THEN "cancel" ELSE @]

\* debounced.cancel()
DebounceCancel(d) ==
  [d EXCEPT !.timeoutId = NoTimer, !.lastArgs = Null,
            !.stopped = IF d.timeoutId.armed THEN "cancel" ELSE @]

\* debounced.flush()
DebounceFlush(d) ==
  IF d.timeoutId.armed /\ d.lastArgs # Null
    THEN [FuncApply(d, d.lastArgs, "flush") EXCEPT
            !.timeoutId = NoTimer, !.lastArgs = Null, !.stopped = "flush"]
    ELSE d

\* the pending timer is due
DebounceDue(d) == d.timeoutId.armed /\ d.now >= d.timeoutId.due

\* ---------------------------------------------------------------- throttle
\* One function made by throttle(func, delay, { leading, trailing }):
\*   leading, trailing, delay   the arguments of throttle
\*   lastCallTime               the closure variable of that name
\*   timeoutId                  the pending trailing timer (armed, due)
\*   lastArgs                   Null or the arguments of the last call
\*   now                        Date.now(); at creation it is already
\*                              larger than delay
\*   calls                      the number of calls of the throttled function
\*   invoked                    the invocations of func (time, arguments)
\*   touched                    cancel() or flush() has been called
ThrottleDelays == {1, 2}

ThrottleNew ==
  [pc |-> "idle", leading |-> TRUE, trailing |-> TRUE, delay |-> 0,
   lastCallTime |-> 0, timeoutId |-> NoTimer, lastArgs |-> Null, now |-> 0,
   calls |-> 0, invoked |-> <<>>, touched |-> FALSE]

\* throttle(func, delay, options)
Throttle(delay, leading, trailing) ==
  [ThrottleNew EXCEPT !.pc = "created", !.delay = delay, !.now = delay,
                      !.leading = leading, !.trailing = trailing]

\* lastCallTime = now; result = func.apply(..., args)
ThrottleApply(t, args) ==
  [t EXCEPT !.lastCallTime = t.now,
            !.invoked = Append(@, [at |-> t.now, args |-> args])]

\* setTimeout(callback, ms): a negative ms counts as 0
TimerAfter(t, ms) == [armed |-> TRUE, due |-> t.now + Max(0, ms)]

\* throttled(...args)
Throttled(t, args) ==
  LET timeSinceLastCall == t.now - t.lastCallTime
      shouldCallNow == t.leading /\ timeSinceLastCall >= t.delay
      shouldScheduleCall == t.trailing /\ ~t.timeoutId.armed
      t1 == [t EXCEPT !.lastArgs = args, !.calls = @ + 1]
  IN IF shouldCallNow THEN ThrottleApply(t1, args)
     ELSE IF shouldScheduleCall
       THEN [t1 EXCEPT !.timeoutId = TimerAfter(t, t.delay - timeSinceLastCall)]
     ELSE t1

\* the trailing timer's callback
ThrottleTimer(t) ==
  LET t1 == [t EXCEPT !.timeoutId = NoTimer]
  IN IF t.trailing /\ t.lastArgs # Null
       THEN ThrottleApply(t1, t.lastArgs)
       ELSE t1

\* throttled.cancel()
ThrottleCancel(t) ==
  [t EXCEPT !.timeoutId = NoTimer, !.lastCallTime = 0, !.lastArgs = Null,
            !.touched = TRUE]

\* throttled.flush()
ThrottleFlush(t) ==
  IF t.timeoutId.armed /\ t.lastArgs # Null
    THEN [ThrottleApply(t, t.lastArgs) EXCEPT
            !.timeoutId = NoTimer, !.lastArgs = Null, !.touched = TRUE]
    ELSE t

\* the pending timer is due
ThrottleDue(t) == t.timeoutId.armed /\ t.now >= t.timeoutId.due

\* ------------------------------------------------- nested use of execute
\* A controller whose tasks may themselves call execute on it.  A nesting
\* task is `async () => { ...; return await controller.execute(inner) }`:
\* some time after it was invoked it submits an inner task to the same
\* controller and settles as the promise of that execute call settles.
\*   c          the controller (over NestIds)
\*   nesting    the ids of the nesting tasks
\*   inner[t]   the id of the inner task t submitted, 0 before
NestTasks == 4
NestIds == 1..NestTasks

NestConstruct(limit) ==
  [Construct(limit) EXCEPT
     !.kind = [t \in NestIds |-> AsyncTask],
     !.st = [t \in NestIds |-> "none"],
     !.out = [t \in NestIds |-> Pending],
     !.promise = [t \in NestIds |-> Pending]]

NestNew ==
  [pc |-> "idle", c |-> NestConstruct(1), nesting |-> {},
   inner |-> [t \in NestIds |-> 0]]

NestCreate(limit) == [NestNew EXCEPT !.pc = "created", !.c = NestConstruct(limit)]

\* controller.execute(task) called from outside any task
NestExecute(n, isNesting) ==
  LET t == Len(n.c.submitted) + 1
  IN [n EXCEPT !.c = Execute(n.c, t, AsyncTask),
               !.nesting = IF isNesting THEN @ \cup {t} ELSE @]

\* controller.execute(inner) called by the running nesting task t
NestInnerExecute(n, t) ==
  LET i == Len(n.c.submitted) + 1
  IN [n EXCEPT !.c = Execute(n.c, i, AsyncTask), !.inner[t] = i]

\* (variant: the task does not await the promise of execute(inner))
NestNotAwaiting(n, t) == FALSE

\* the nesting task t is suspended at `await controller.execute(inner)`
NestAwaiting(n, t) ==
  t \in n.nesting /\ (n.inner[t] = 0 \/ n.c.promise[n.inner[t]] = Pending)

\* the outcomes with which task t may settle now: a nesting task settles as
\* the promise of its execute(inner), any other task as it likes
NestOutcomes(n, t) ==
  IF t \in n.nesting
    THEN (IF n.inner[t] = 0 THEN {} ELSE {n.c.promise[n.inner[t]]} \ {Pending})
    ELSE {Fulfilled("v1"), Rejected("v2")}

NestInFlight(n) == {t \in NestIds : n.c.st[t] \in {"running", "settled"}}

\* ------------------------------------------ controller with withTimeout
\* A controller whose tasks are `() => withTimeout(task, ms)`:
\*   c       the controller
\*   ms[t]   the timeout of the t-th wrapped task
\*   w[t]    the withTimeout call made when the controller invokes the
\*           t-th task (pc = "idle" before)
\* every wrapped task gets the same delay: which of the two events of a
\* race comes first is decided by when the underlying task settles
CtwTimeouts == {1}
CtwOutcomes == {Fulfilled("v1"), Rejected("v2")}

CtwNew ==
  [pc |-> "idle", c |-> Construct(1), ms |-> [t \in TaskIds |-> 1],
   w |-> [t \in TaskIds |-> TimeoutNew]]

CtwCreate(limit) == [CtwNew EXCEPT !.pc = "created", !.c = Construct(limit)]

\* task() inside run: every task the controller has just invoked calls
\* withTimeout
CtwInvoke(n) ==
  [n EXCEPT !.w = [t \in TaskIds |->
                     IF n.w[t].pc = "idle" /\ \E i \in 1..Len(n.c.started) : n.c.started[i] = t
                       THEN TimeoutStart(n.ms[t], AsyncTask)
                       ELSE n.w[t]]]

\* controller.execute(() => withTimeout(task, ms))
CtwExecute(n, ms) ==
  LET t == Len(n.c.submitted) + 1
  IN CtwInvoke([n EXCEPT !.ms[t] = ms, !.c = Execute(n.c, t, AsyncTask)])

\* (variant: the controller's task settles with the underlying task, not
\* with the race)
CtwRaceWaitsForTask(n, t, w1) ==
  [n EXCEPT !.w[t] = w1,
            !.c = IF n.w[t].task = "running" /\ w1.task = "settled"
                    THEN TaskSettled(n.c, t, w1.taskOut)
                    ELSE n.c]

\* an input of the race of the t-th call settles: `await task()` in run
\* sees the promise withTimeout returned settle
CtwRace(n, t, w1) ==
  [n EXCEPT !.w[t] = w1,
            !.c = IF n.w[t].promise = Pending /\ w1.promise # Pending
                    THEN TaskSettled(n.c, t, w1.promise)
                    ELSE n.c]

\* run resumes after `await task()`; a released slot may start a queued
\* task, which calls withTimeout
CtwResume(n, t) == CtwInvoke([n EXCEPT !.c = RunResume(n.c, t)])

\* one millisecond passes for every pending timer
CtwElapse(n) ==
  [n EXCEPT !.w = [t \in TaskIds |->
                     IF n.w[t].timer = "armed"
                       THEN [n.w[t] EXCEPT !.now = @ + 1]
                       ELSE n.w[t]]]

\* the underlying tasks still executing
CtwUnderway(n) == {t \in TaskIds : n.w[t].task = "running"}

\* ------------------------------------------------------------------ Spec
\* A controller used directly: execute is called at arbitrary moments.

CtrlInit ==
  /\ ctorLimit \in CtorLimits
  /\ ctrl = Construct(ctorLimit)

MapIdle ==
  /\ mapPc = "idle"
  /\ mapN = 0
  /\ mapLimit = 1
  /\ mapCtrl = Construct(1)
  /\ mapCb = [t \in TaskIds |-> Pending]
  /\ results = EmptyArray
  /\ mapOrder = <<>>
  /\ mapPromise = Pending

RestIdle ==
  /\ bat = BatchNew
  /\ rt = RetryNew
  /\ wt = TimeoutNew
  /\ em = EmitterNew
  /\ ht = HttpNew
  /\ uq = UseRequestNew
  /\ db = DebounceNew
  /\ th = ThrottleNew
  /\ nest = NestNew
  /\ ctw = CtwNew

Init == CtrlInit /\ MapIdle /\ RestIdle

ExecuteCall ==
  /\ Len(ctrl.submitted) < MaxTasks
  /\ \E k \in TaskKinds : ctrl' = Execute(ctrl, Len(ctrl.submitted) + 1, k)
  /\ UNCHANGED <<ctorLimit, mapVars, restVars>>

TaskSettles(t) ==
  /\ ctrl.st[t] = "running"
  /\ \E o \in Outcomes : ctrl' = TaskSettled(ctrl, t, o)
  /\ UNCHANGED <<ctorLimit, mapVars, restVars>>

RunResumes(t) ==
  /\ ctrl.st[t] = "settled"
  /\ ctrl' = RunResume(ctrl, t)
  /\ UNCHANGED <<ctorLimit, mapVars, restVars>>

Next ==
  \/ ExecuteCall
  \/ \E t \in TaskIds : TaskSettles(t)
  \/ \E t \in TaskIds : RunResumes(t)

Spec == Init /\ [][Next]_vars

\* Every started task eventually settles, and the microtask that resumes
\* run after its await is always eventually executed by the event loop.
FairSpec ==
  /\ Spec
  /\ \A t \in TaskIds : WF_vars(TaskSettles(t))
  /\ \A t \in TaskIds : WF_vars(RunResumes(t))

\* --------------------------------------------------------------- MapSpec
\* One call of concurrentMap(tasks, limit).  The steps that may run next
\* (a task settling, run resuming, a callback resuming, the return) are
\* taken in any order, which includes the order of the microtask queue.

CtrlIdle ==
  /\ ctorLimit = 1
  /\ ctrl = Construct(1)

MapInit == CtrlIdle /\ MapIdle /\ RestIdle

MapCall ==
  /\ mapPc = "idle"
  /\ \E n \in 0..MaxTasks, l \in CtorLimits :
       \E tasks \in [1..n -> TaskKinds] :
         /\ mapN' = n
         /\ mapLimit' = l
         /\ mapCtrl' = MapSubmit(Construct(l), tasks, 1)
  /\ mapPc' = "awaiting"
  /\ UNCHANGED <<ctrlVars, restVars, mapCb, results, mapOrder, mapPromise>>

MapTaskSettles(t) ==
  /\ mapCtrl.st[t] = "running"
  /\ \E o \in Outcomes : mapCtrl' = TaskSettled(mapCtrl, t, o)
  /\ UNCHANGED <<ctrlVars, restVars, mapPc, mapN, mapLimit, mapCb, results, mapOrder, mapPromise>>

MapRunResumes(t) ==
  /\ mapCtrl.st[t] = "settled"
  /\ mapCtrl' = RunResume(mapCtrl, t)
  /\ UNCHANGED <<ctrlVars, restVars, mapPc, mapN, mapLimit, mapCb, results, mapOrder, mapPromise>>

MapCallbackResumes(t) ==
  /\ mapPc # "idle"
  /\ t <= mapN
  /\ mapCb[t].status = "pending"
  /\ mapCtrl.promise[t].status # "pending"
  /\ LET r == MapCallback(results, t - 1, mapCtrl.promise[t])
     IN /\ results' = r.results
        /\ mapCb' = [mapCb EXCEPT ![t] = r.promise]
  /\ mapOrder' = Append(mapOrder, t - 1)
  /\ UNCHANGED <<ctrlVars, restVars, mapPc, mapN, mapLimit, mapCtrl, mapPromise>>

MapReturn ==
  /\ mapPc = "awaiting"
  /\ PromiseAll(mapCb, mapN).status # "pending"
  /\ mapPromise' = MapResult(PromiseAll(mapCb, mapN), results)
  /\ mapPc' = "returned"
  /\ UNCHANGED <<ctrlVars, restVars, mapN, mapLimit, mapCtrl, mapCb, results, mapOrder>>

MapNext ==
  \/ MapCall
  \/ \E t \in TaskIds : MapTaskSettles(t)
  \/ \E t \in TaskIds : MapRunResumes(t)
  \/ \E t \in TaskIds : MapCallbackResumes(t)
  \/ MapReturn

MapSpec == MapInit /\ [][MapNext]_vars

\* -------------------------------------------------------------- BatchSpec
\* One call of batchExecute(tasks, batchSize, delay).

AllIdle == CtrlIdle /\ MapIdle /\ RestIdle

BatchCall ==
  /\ bat.pc = "idle"
  /\ \E n \in 0..MaxTasks, size \in BatchSizes, delay \in BatchDelays :
       \E tasks \in [1..n -> TaskKinds] :
         bat' = BatchStart(n, size, delay, tasks)
  /\ UNCHANGED <<ctrlVars, mapVars, rt, wt, em, moreVars>>

BatchTaskSettles(t) ==
  /\ bat.st[t] = "running"
  /\ \E o \in Outcomes : bat' = [bat EXCEPT !.st[t] = "settled", !.out[t] = o]
  /\ UNCHANGED <<ctrlVars, mapVars, rt, wt, em, moreVars>>

BatchCallbackResumes(t) ==
  /\ bat.st[t] = "settled"
  /\ bat' = BatchCallback(bat, t, bat.out[t])
  /\ UNCHANGED <<ctrlVars, mapVars, rt, wt, em, moreVars>>

BatchChunkSettled ==
  /\ bat.pc = "batch"
  /\ BatchAll(bat).status # "pending"
  /\ bat.delays < MaxDelays
  /\ bat' = BatchAfterAll(bat, BatchAll(bat))
  /\ UNCHANGED <<ctrlVars, mapVars, rt, wt, em, moreVars>>

BatchDelayElapses ==
  /\ bat.pc = "delay"
  /\ bat' = BatchAdvance(bat)
  /\ UNCHANGED <<ctrlVars, mapVars, rt, wt, em, moreVars>>

BatchNext ==
  \/ BatchCall
  \/ \E t \in TaskIds : BatchTaskSettles(t)
  \/ \E t \in TaskIds : BatchCallbackResumes(t)
  \/ BatchChunkSettled
  \/ BatchDelayElapses

BatchSpec == AllIdle /\ [][BatchNext]_vars

\* -------------------------------------------------------------- RetrySpec
\* One call of retry(task, maxRetries, retryDelay).  What the task does is
\* chosen anew at each invocation.

RetryCall ==
  /\ rt.pc = "idle"
  /\ \E m \in RetryCounts, d \in RetryDelays, k \in TaskKinds :
       rt' = RetryLoop([RetryNew EXCEPT !.maxRetries = m, !.retryDelay = d], k)
  /\ UNCHANGED <<ctrlVars, mapVars, bat, wt, em, moreVars>>

RetryTaskSettles ==
  /\ rt.pc = "attempt"
  /\ \E o \in Outcomes : rt' = [rt EXCEPT !.pc = "settled", !.hist = Append(@, o)]
  /\ UNCHANGED <<ctrlVars, mapVars, bat, wt, em, moreVars>>

RetryResumes ==
  /\ rt.pc = "settled"
  /\ \E k \in TaskKinds : rt' = RetryResume(rt, k)
  /\ UNCHANGED <<ctrlVars, mapVars, bat, wt, em, moreVars>>

RetryDelayElapses ==
  /\ rt.pc = "wait"
  /\ \E k \in TaskKinds : rt' = RetryAfterWait(rt, k)
  /\ UNCHANGED <<ctrlVars, mapVars, bat, wt, em, moreVars>>

RetryNext ==
  \/ RetryCall
  \/ RetryTaskSettles
  \/ RetryResumes
  \/ RetryDelayElapses

RetrySpec == AllIdle /\ [][RetryNext]_vars

\* ------------------------------------------------------------ TimeoutSpec
\* One call of withTimeout(task, timeout).  The task may settle at any
\* time; the timer fires when its delay has elapsed, and time does not
\* pass while a due timer has not fired.

TimeoutCall ==
  /\ wt.pc = "idle"
  /\ \E ms \in Timeouts, k \in TaskKinds : wt' = TimeoutStart(ms, k)
  /\ UNCHANGED <<ctrlVars, mapVars, bat, rt, em, moreVars>>

TimeoutTick ==
  /\ wt.pc = "called"
  /\ ~TimeoutDue(wt)
  /\ wt.now <= MaxTimeout
  /\ wt' = [wt EXCEPT !.now = @ + 1]
  /\ UNCHANGED <<ctrlVars, mapVars, bat, rt, em, moreVars>>

TimeoutTaskSettles ==
  /\ wt.task = "running"
  /\ \E o \in Outcomes : wt' = TimeoutTaskSettled(wt, o)
  /\ UNCHANGED <<ctrlVars, mapVars, bat, rt, em, moreVars>>

TimeoutTimerFires ==
  /\ TimeoutDue(wt)
  /\ wt' = TimeoutTimerFired(wt)
  /\ UNCHANGED <<ctrlVars, mapVars, bat, rt, em, moreVars>>

TimeoutNext ==
  \/ TimeoutCall
  \/ TimeoutTick
  \/ TimeoutTaskSettles
  \/ TimeoutTimerFires

TimeoutSpec == AllIdle /\ [][TimeoutNext]_vars

\* ------------------------------------------------------------ EmitterSpec
\* A program calling one EventEmitter: every step is one synchronous call
\* of its API, run to completion (callbacks and the emits they make
\* included).

EmitterOn ==
  /\ Len(em.subs) < MaxSubs
  /\ \E e \in EventNames, fn \in Callbacks : em' = Returned(On(em, e, fn, 0))
  /\ UNCHANGED <<ctrlVars, mapVars, bat, rt, wt, moreVars>>

EmitterOnce ==
  /\ Len(em.subs) < MaxSubs
  /\ \E e \in EventNames, fn \in Callbacks : em' = Returned(Once(em, e, fn))
  /\ UNCHANGED <<ctrlVars, mapVars, bat, rt, wt, moreVars>>

EmitterOff ==
  /\ \E e \in EventNames, fn \in Callbacks :
       /\ Off(em, e, fn, 0) # em
       /\ em' = Returned(Off(em, e, fn, 0))
  /\ UNCHANGED <<ctrlVars, mapVars, bat, rt, wt, moreVars>>

EmitterOffAll ==
  /\ \E e \in EventNames :
       /\ OffAll(em, e) # em
       /\ em' = Returned(OffAll(em, e))
  /\ UNCHANGED <<ctrlVars, mapVars, bat, rt, wt, moreVars>>

EmitterUnsubscribe ==
  /\ \E k \in 1..Len(em.subs) :
       /\ Unsubscribe(em, k) # em
       /\ em' = Returned(Unsubscribe(em, k))
  /\ UNCHANGED <<ctrlVars, mapVars, bat, rt, wt, moreVars>>

EmitterClear ==
  /\ Clear(em) # em
  /\ em' = Returned(Clear(em))
  /\ UNCHANGED <<ctrlVars, mapVars, bat, rt, wt, moreVars>>

EmitterEmit ==
  /\ em.emits < MaxEmits
  /\ \E e \in EventNames, d \in EventData : em' = EmitCall(em, e, d)
  /\ UNCHANGED <<ctrlVars, mapVars, bat, rt, wt, moreVars>>

EmitterNext ==
  \/ EmitterOn
  \/ EmitterOnce
  \/ EmitterOff
  \/ EmitterOffAll
  \/ EmitterUnsubscribe
  \/ EmitterClear
  \/ EmitterEmit

EmitterSpec == AllIdle /\ [][EmitterNext]_vars

\* ---------------------------------------------------------------- HttpSpec
\* A program that configures maxConcurrent, then makes requests and
\* cancels, while fetches settle (HttpSpec); a program that makes requests
\* and clears the cache, while fetches settle and time passes (CacheSpec).

HttpConfigure ==
  /\ ht.req = <<>>
  /\ \E m \in 0..MaxConcurrent :
       /\ m # ht.maxConcurrent
       /\ ht' = setGlobalConfig(ht, m)
  /\ UNCHANGED <<ctrlVars, mapVars, bat, rt, wt, em, uq, db, th, nest, ctw>>

HttpRequest ==
  /\ Len(ht.req) < MaxRequests
  /\ \E config \in RequestConfigs : ht' = Request(ht, config)
  /\ UNCHANGED <<ctrlVars, mapVars, bat, rt, wt, em, uq, db, th, nest, ctw>>

HttpFetchSettles ==
  /\ \E i \in Executing(ht), o \in FetchOutcomes : ht' = Fetched(ht, i, o)
  /\ UNCHANGED <<ctrlVars, mapVars, bat, rt, wt, em, uq, db, th, nest, ctw>>

HttpClearCache ==
  /\ \E pattern \in ClearPatterns :
       /\ clearCache(ht, pattern) # ht
       /\ ht' = clearCache(ht, pattern)
  /\ UNCHANGED <<ctrlVars, mapVars, bat, rt, wt, em, uq, db, th, nest, ctw>>

HttpCancelAll ==
  /\ ht.requestQueue # <<>>
  /\ ht' = cancelAllRequests(ht)
  /\ UNCHANGED <<ctrlVars, mapVars, bat, rt, wt, em, uq, db, th, nest, ctw>>

\* Date.now() advances. Its value is read only to date a new entry and to
\* compare an entry's age with its ttl, so time is advanced only while
\* some entry has not expired.
HttpTick ==
  /\ ht.now < MaxNow
  /\ \E k \in CacheKeys : CacheFresh(ht, k)
  /\ ht' = [ht EXCEPT !.now = @ + 1]
  /\ UNCHANGED <<ctrlVars, mapVars, bat, rt, wt, em, uq, db, th, nest, ctw>>

HttpNext ==
  \/ HttpConfigure
  \/ HttpRequest
  \/ HttpFetchSettles
  \/ HttpCancelAll

HttpSpec == AllIdle /\ [][HttpNext]_vars

\* the same program under fair scheduling: a fetch in flight settles
HttpFairSpec == HttpSpec /\ WF_vars(HttpFetchSettles)

CacheNext ==
  \/ HttpRequest
  \/ HttpFetchSettles
  \/ HttpClearCache
  \/ HttpTick

CacheSpec == AllIdle /\ [][CacheNext]_vars

\* ----------------------------------------------------------- UseRequestSpec
\* A program using one hook: run()/refresh() and cancel() calls, while the
\* requests settle. The fetch of an aborted signal rejects with an
\* AbortError, and it does so before a fetch still under way completes.

UqCreate ==
  /\ uq.pc = "idle"
  /\ \E manual \in BOOLEAN : uq' = UseRequestCreate(manual)
  /\ UNCHANGED <<ctrlVars, mapVars, bat, rt, wt, em, ht, db, th, nest, ctw>>

UqRun ==
  /\ uq.pc = "created"
  /\ Len(uq.runs) < MaxRuns
  /\ uq' = UseRequestRun(uq)
  /\ UNCHANGED <<ctrlVars, mapVars, bat, rt, wt, em, ht, db, th, nest, ctw>>

UqCancel ==
  /\ uq.pc = "created"
  /\ UseRequestCancel(uq) # uq
  /\ uq' = UseRequestCancel(uq)
  /\ UNCHANGED <<ctrlVars, mapVars, bat, rt, wt, em, ht, db, th, nest, ctw>>

UqAbortedRunFails ==
  /\ \E i \in RunsAborted(uq) : uq' = RunFailed(uq, i, "AbortError")
  /\ UNCHANGED <<ctrlVars, mapVars, bat, rt, wt, em, ht, db, th, nest, ctw>>

UqRunSucceeds ==
  /\ RunsAborted(uq) = {}
  /\ \E i \in RunsInFlight(uq), data \in Vals : uq' = RunSucceeded(uq, i, data)
  /\ UNCHANGED <<ctrlVars, mapVars, bat, rt, wt, em, ht, db, th, nest, ctw>>

UqRunFails ==
  /\ RunsAborted(uq) = {}
  /\ \E i \in RunsInFlight(uq) : uq' = RunFailed(uq, i, "HTTP Error")
  /\ UNCHANGED <<ctrlVars, mapVars, bat, rt, wt, em, ht, db, th, nest, ctw>>

UqNext ==
  \/ UqCreate
  \/ UqRun
  \/ UqCancel
  \/ UqAbortedRunFails
  \/ UqRunSucceeds
  \/ UqRunFails

UseRequestSpec == AllIdle /\ [][UqNext]_vars

\* ------------------------------------------------------------- DebounceSpec
\* A program calling one debounced function, its cancel() and its flush()
\* at any time. A timer fires when it is due: time does not pass while a
\* due timer has not fired, but a call may still come first.

DbCreate ==
  /\ db.pc = "idle"
  /\ \E delay \in DebounceDelays, immediate \in BOOLEAN :
       db' = Debounce(delay, immediate)
  /\ UNCHANGED <<ctrlVars, mapVars, bat, rt, wt, em, ht, uq, th, nest, ctw>>

DbCall ==
  /\ db.pc = "created"
  /\ db.calls < MaxCalls
  /\ \E args \in Args : db' = Debounced(db, args)
  /\ UNCHANGED <<ctrlVars, mapVars, bat, rt, wt, em, ht, uq, th, nest, ctw>>

DbCancel ==
  /\ db.pc = "created"
  /\ DebounceCancel(db) # db
  /\ db' = DebounceCancel(db)
  /\ UNCHANGED <<ctrlVars, mapVars, bat, rt, wt, em, ht, uq, th, nest, ctw>>

DbFlush ==
  /\ db.pc = "created"
  /\ DebounceFlush(db) # db
  /\ db' = DebounceFlush(db)
  /\ UNCHANGED <<ctrlVars, mapVars, bat, rt, wt, em, ht, uq, th, nest, ctw>>

DbTimerFires ==
  /\ DebounceDue(db)
  /\ db' = DebounceTimer(db)
  /\ UNCHANGED <<ctrlVars, mapVars, bat, rt, wt, em, ht, uq, th, nest, ctw>>

DbTick ==
  /\ db.pc = "created"
  /\ ~DebounceDue(db)
  /\ db.now < MaxTime
  /\ db' = [db EXCEPT !.now = @ + 1]
  /\ UNCHANGED <<ctrlVars, mapVars, bat, rt, wt, em, ht, uq, th, nest, ctw>>

DbNext ==
  \/ DbCreate
  \/ DbCall
  \/ DbCancel
  \/ DbFlush
  \/ DbTimerFires
  \/ DbTick

DebounceSpec == AllIdle /\ [][DbNext]_vars

\* ------------------------------------------------------------- ThrottleSpec
\* A program calling one throttled function, its cancel() and its flush()
\* at any time. A timer fires when it is due: time does not pass while a
\* due timer has not fired, but a call made at that instant may run first.

ThCreate ==
  /\ th.pc = "idle"
  /\ \E delay \in ThrottleDelays, leading \in BOOLEAN, trailing \in BOOLEAN :
       th' = Throttle(delay, leading, trailing)
  /\ UNCHANGED <<ctrlVars, mapVars, bat, rt, wt, em, ht, uq, db, nest, ctw>>

ThCall ==
  /\ th.pc = "created"
  /\ th.calls < MaxCalls
  /\ \E args \in Args : th' = Throttled(th, args)
  /\ UNCHANGED <<ctrlVars, mapVars, bat, rt, wt, em, ht, uq, db, nest, ctw>>

ThCancel ==
  /\ th.pc = "created"
  /\ ThrottleCancel(th) # th
  /\ th' = ThrottleCancel(th)
  /\ UNCHANGED <<ctrlVars, mapVars, bat, rt, wt, em, ht, uq, db, nest, ctw>>

ThFlush ==
  /\ th.pc = "created"
  /\ ThrottleFlush(th) # th
  /\ th' = ThrottleFlush(th)
  /\ UNCHANGED <<ctrlVars, mapVars, bat, rt, wt, em, ht, uq, db, nest, ctw>>

ThTimerFires ==
  /\ ThrottleDue(th)
  /\ th' = ThrottleTimer(th)
  /\ UNCHANGED <<ctrlVars, mapVars, bat, rt, wt, em, ht, uq, db, nest, ctw>>

ThTick ==
  /\ th.pc = "created"
  /\ ~ThrottleDue(th)
  /\ th.now < th.delay + MaxTime
  /\ th' = [th EXCEPT !.now = @ + 1]
  /\ UNCHANGED <<ctrlVars, mapVars, bat, rt, wt, em, ht, uq, db, nest, ctw>>

ThNext ==
  \/ ThCreate
  \/ ThCall
  \/ ThCancel
  \/ ThFlush
  \/ ThTimerFires
  \/ ThTick

ThrottleSpec == AllIdle /\ [][ThNext]_vars

\* ----------------------------------------------------------------- NestSpec
\* Tasks are submitted from outside at any time; a running nesting task
\* submits its inner task at some later step.

NestCreates ==
  /\ nest.pc = "idle"
  /\ \E limit \in 1..MaxLimit : nest' = NestCreate(limit)
  /\ UNCHANGED <<ctrlVars, mapVars, bat, rt, wt, em, ht, uq, db, th, ctw>>

NestExecuteCall ==
  /\ nest.pc = "created"
  /\ Len(nest.c.submitted) < NestTasks
  /\ \E isNesting \in BOOLEAN : nest' = NestExecute(nest, isNesting)
  /\ UNCHANGED <<ctrlVars, mapVars, bat, rt, wt, em, ht, uq, db, th, ctw>>

NestTaskCallsExecute(t) ==
  /\ nest.pc = "created"
  /\ t \in nest.nesting
  /\ nest.c.st[t] = "running"
  /\ nest.inner[t] = 0
  /\ Len(nest.c.submitted) < NestTasks
  /\ nest' = NestInnerExecute(nest, t)
  /\ UNCHANGED <<ctrlVars, mapVars, bat, rt, wt, em, ht, uq, db, th, ctw>>

NestTaskSettles(t) ==
  /\ nest.pc = "created"
  /\ nest.c.st[t] = "running"
  /\ ~NestAwaiting(nest, t)
  /\ \E o \in (IF NestOutcomes(nest, t) = {} THEN {Fulfilled("v1")}
                ELSE NestOutcomes(nest, t)) :
       nest' = [nest EXCEPT !.c = TaskSettled(nest.c, t, o)]
  /\ UNCHANGED <<ctrlVars, mapVars, bat, rt, wt, em, ht, uq, db, th, ctw>>

NestRunResumes(t) ==
  /\ nest.pc = "created"
  /\ nest.c.st[t] = "settled"
  /\ nest' = [nest EXCEPT !.c = RunResume(nest.c, t)]
  /\ UNCHANGED <<ctrlVars, mapVars, bat, rt, wt, em, ht, uq, db, th, ctw>>

NestNext ==
  \/ NestCreates
  \/ NestExecuteCall
  \/ \E t \in NestIds : NestTaskCallsExecute(t)
  \/ \E t \in NestIds : NestTaskSettles(t)
  \/ \E t \in NestIds : NestRunResumes(t)

NestSpec == AllIdle /\ [][NestNext]_vars

\* ------------------------------------------------------------------ CtwSpec
\* Wrapped tasks are submitted at any time; an underlying task may settle
\* at any time; a timer fires when its delay has elapsed.

CtwCreates ==
  /\ ctw.pc = "idle"
  /\ \E limit \in 1..MaxLimit : ctw' = CtwCreate(limit)
  /\ UNCHANGED <<ctrlVars, mapVars, bat, rt, wt, em, ht, uq, db, th, nest>>

CtwExecuteCall ==
  /\ ctw.pc = "created"
  /\ Len(ctw.c.submitted) < MaxTasks
  /\ \E ms \in CtwTimeouts : ctw' = CtwExecute(ctw, ms)
  /\ UNCHANGED <<ctrlVars, mapVars, bat, rt, wt, em, ht, uq, db, th, nest>>

CtwTaskSettles(t) ==
  /\ ctw.w[t].task = "running"
  /\ \E o \in CtwOutcomes : ctw' = CtwRace(ctw, t, TimeoutTaskSettled(ctw.w[t], o))
  /\ UNCHANGED <<ctrlVars, mapVars, bat, rt, wt, em, ht, uq, db, th, nest>>

CtwTimerFires(t) ==
  /\ TimeoutDue(ctw.w[t])
  /\ ctw' = CtwRace(ctw, t, TimeoutTimerFired(ctw.w[t]))
  /\ UNCHANGED <<ctrlVars, mapVars, bat, rt, wt, em, ht, uq, db, th, nest>>

CtwRunResumes(t) ==
  /\ ctw.pc = "created"
  /\ ctw.c.st[t] = "settled"
  /\ ctw' = CtwResume(ctw, t)
  /\ UNCHANGED <<ctrlVars, mapVars, bat, rt, wt, em, ht, uq, db, th, nest>>

CtwTick ==
  /\ \E t \in TaskIds : ctw.w[t].timer = "armed"
  /\ \A t \in TaskIds : ~TimeoutDue(ctw.w[t])
  /\ ctw' = CtwElapse(ctw)
  /\ UNCHANGED <<ctrlVars, mapVars, bat, rt, wt, em, ht, uq, db, th, nest>>

CtwNext ==
  \/ CtwCreates
  \/ CtwExecuteCall
  \/ \E t \in TaskIds : CtwTaskSettles(t)
  \/ \E t \in TaskIds : CtwTimerFires(t)
  \/ \E t \in TaskIds : CtwRunResumes(t)
  \/ CtwTick

CtwSpec == AllIdle /\ [][CtwNext]_vars

\* ------------------------------------------------- controller properties
InFlight(c) == {t \in TaskIds : c.st[t] \in {"running", "settled"}}
Done(c) == {t \in TaskIds : c.st[t] = "done"}
Range(q) == {q[i] : i \in 1..Len(q)}
Submitted(c) == Range(c.submitted)

\* C1: for a controller built with any integer limit, in every reachable
\* state 0 <= runningCount <= max(1, limit).
C1_RunningWithinLimit ==
  /\ 0 <= runningCount(ctrl)
  /\ runningCount(ctrl) <= Max(1, ctorLimit)

\* C1 witness: the ceiling is reached with work queued behind it, after an
\* earlier task has already given its slot back.
C1_Witness ==
  /\ runningCount(ctrl) = Max(1, ctorLimit)
  /\ queueCount(ctrl) > 0
  /\ Done(ctrl) # {}

\* C2: the promise execute returned settles exactly as the task's own
\* invocation did (same value, same reason), whether the task started at
\* once or was queued first, and it is pending until run has finished.
C2_PromiseMirrorsTask ==
  \A t \in TaskIds :
    /\ ctrl.st[t] = "done" => ctrl.out[t] \in Outcomes /\ ctrl.promise[t] = ctrl.out[t]
    /\ ctrl.st[t] # "done" => ctrl.promise[t] = Pending

\* C2 witness: a queued task fulfilled, an immediately started task rejected
\* asynchronously, and a task that threw synchronously, all finished.
C2_Witness ==
  /\ \E t \in ctrl.waited : ctrl.st[t] = "done" /\ ctrl.promise[t].status = "fulfilled"
  /\ \E t \in Done(ctrl) \ ctrl.waited :
       ~ctrl.kind[t].throws /\ ctrl.promise[t].status = "rejected"
  /\ \E t \in Done(ctrl) : ctrl.kind[t].throws

\* C3: tasks are invoked in the order execute was called: the sequence of
\* invocations is a prefix of the sequence of submissions.
C3_StartedInSubmissionOrder ==
  /\ Len(ctrl.started) <= Len(ctrl.submitted)
  /\ \A i \in 1..Len(ctrl.started) : ctrl.started[i] = ctrl.submitted[i]

\* C3 witness: tasks settle out of submission order (the second finished
\* while the first still runs) and a queued task has been started since.
C3_Witness ==
  /\ Len(ctrl.started) = 3
  /\ ctrl.st[1] \in {"running", "settled"}
  /\ ctrl.st[2] = "done"
  /\ 3 \in ctrl.waited

\* C4: with N > L tasks submitted, none of which settles by itself, and none
\* yet released, runningCount = L and queueCount = N - L; each release (run
\* resuming after the await) with a non-empty queue starts exactly the
\* oldest queued task: runningCount stays L and queueCount drops by one.
AllHeld(c) == \A t \in Submitted(c) : ~c.kind[t].throws

C4_HeldState ==
  (AllHeld(ctrl) /\ Len(ctrl.submitted) > ctrl.limit /\ Done(ctrl) = {}) =>
     /\ runningCount(ctrl) = ctrl.limit
     /\ queueCount(ctrl) = Len(ctrl.submitted) - ctrl.limit

C4_ReleaseStep ==
  \A t \in TaskIds :
    (AllHeld(ctrl) /\ ctrl.st[t] = "settled" /\ ctrl'.st[t] = "done" /\ queueCount(ctrl) > 0) =>
       /\ runningCount(ctrl) = ctrl.limit
       /\ runningCount(ctrl') = ctrl.limit
       /\ queueCount(ctrl') = queueCount(ctrl) - 1
       /\ ctrl'.queue = Tail(ctrl.queue)
       /\ ctrl'.started = Append(ctrl.started, Head(ctrl.queue))
       /\ ctrl'.st[Head(ctrl.queue)] = "running"

C4_ReleaseMovesOldest == []C4_HeldState /\ [][C4_ReleaseStep]_vars

\* C4 witness: more tasks than slots were submitted, one has been released
\* and the oldest queued task took its slot.
C4_Witness ==
  /\ AllHeld(ctrl)
  /\ Len(ctrl.submitted) > ctrl.limit
  /\ Cardinality(Done(ctrl)) = 1
  /\ ctrl.waited # {}
  /\ runningCount(ctrl) = ctrl.limit
  /\ queueCount(ctrl) = Len(ctrl.submitted) - ctrl.limit - 1

\* C5: a task that rejects or throws releases its slot like one that
\* fulfils: running counts exactly the tasks in flight, the step that ends a
\* rejected task starts the oldest queued task, and it changes no sibling:
\* a sibling in flight or finished keeps its state, outcome and promise, a
\* queued sibling stays queued or is started, and settles only with its own
\* outcome.
C5_RunningCountsInFlight == runningCount(ctrl) = Cardinality(InFlight(ctrl))

C5_RejectStep ==
  \A t \in TaskIds :
    (ctrl.st[t] = "settled" /\ ctrl'.st[t] = "done" /\ ctrl.out[t].status = "rejected") =>
       /\ queueCount(ctrl) > 0 =>
            /\ Len(ctrl'.started) > Len(ctrl.started)
            /\ ctrl'.started[Len(ctrl.started) + 1] = Head(ctrl.queue)
       /\ \A u \in TaskIds \ {t} :
            /\ ctrl'.kind[u] = ctrl.kind[u]
            /\ ctrl.st[u] \in {"none", "running", "settled", "done"} =>
                 /\ ctrl'.st[u] = ctrl.st[u]
                 /\ ctrl'.out[u] = ctrl.out[u]
                 /\ ctrl'.promise[u] = ctrl.promise[u]
            /\ ctrl.st[u] = "queued" =>
                 /\ ctrl'.st[u] \in {"queued", "running", "done"}
                 /\ ctrl'.st[u] = "done" =>
                      /\ ctrl.kind[u].throws
                      /\ ctrl'.promise[u] = Rejected(ctrl.kind[u].reason)
                 /\ ctrl'.st[u] # "done" => ctrl'.promise[u] = Pending

C5_FailureReleasesSlot == []C5_RunningCountsInFlight /\ [][C5_RejectStep]_vars

\* C5 witness: a task rejected, the queued task behind it was started in
\* its slot and has fulfilled with its own value.
C5_Witness ==
  \E t, u \in TaskIds :
    /\ t < u
    /\ ctrl.st[t] = "done" /\ ctrl.promise[t].status = "rejected"
    /\ u \in ctrl.waited
    /\ ctrl.st[u] = "done" /\ ctrl.promise[u].status = "fulfilled"

\* C6 (under FairSpec: every started task eventually settles): every task
\* passed to execute is eventually invoked and its promise eventually
\* settles; no task stays queued forever.  Stated as: again and again
\* every task submitted so far has been invoked, has finished and has a
\* settled promise (a submitted task stays submitted, so this gives the
\* same for each task from its submission on).
C6_EveryTaskFinishes ==
  []<>(\A t \in TaskIds :
         ctrl.st[t] # "none" =>
           /\ t \in Range(ctrl.started)
           /\ ctrl.st[t] = "done"
           /\ ctrl.promise[t] # Pending)

\* C6 witness: every task was submitted, some had to wait, all finished.
C6_Witness ==
  /\ Len(ctrl.submitted) = MaxTasks
  /\ Cardinality(ctrl.waited) >= 2
  /\ Done(ctrl) = TaskIds

\* C7: between synchronous steps no slot is idle while work is queued:
\* queueCount > 0 implies runningCount = limit.
C7_NoIdleSlotWhileQueued ==
  queueCount(ctrl) > 0 => runningCount(ctrl) = ctrl.limit

\* C7 witness: a task finished while two were queued, the first of them
\* threw synchronously on start, and its slot went on to the next one.
C7_Witness ==
  \E t, u \in ctrl.waited :
    /\ t < u
    /\ ctrl.kind[t].throws /\ ctrl.st[t] = "done"
    /\ ctrl.st[u] = "running"
    /\ runningCount(ctrl) = ctrl.limit

\* C8: a controller constructed with limit <= 0 is the controller
\* constructed with limit 1: same limit field, the first submitted task is
\* invoked at once, and at most one task runs at a time.
C8_NonPositiveLimitIsOne ==
  ctorLimit <= 0 =>
    /\ ctrl.limit = Construct(1).limit
    /\ runningCount(ctrl) <= 1
    /\ Cardinality(InFlight(ctrl)) <= 1
    /\ Len(ctrl.submitted) >= 1 =>
         /\ Len(ctrl.started) >= 1
         /\ ctrl.started[1] = ctrl.submitted[1]
         /\ 1 \notin ctrl.waited

\* C8 witness: built with a non-positive limit, one task runs, another
\* waits, and an earlier one has finished.
C8_Witness ==
  /\ ctorLimit <= 0
  /\ runningCount(ctrl) = 1
  /\ queueCount(ctrl) > 0
  /\ Done(ctrl) # {}

\* -------------------------------------------------- concurrentMap properties
MapTasks == 1..mapN

\* the TaskResult that records the outcome o of the task at index
ResultOf(o, index) ==
  IF o.status = "fulfilled" THEN FulfilledResult(o.val, index)
  ELSE RejectedResult(o.val, index)

\* C9: the array concurrentMap resolves with has length tasks.length and no
\* holes, and entry i has index i and records task i's own outcome
\* (fulfilled with its value and no reason, or rejected with its reason and
\* no value), for the empty list and for any completion order.
C9_ResultsMatchTasks ==
  mapPromise.status = "fulfilled" =>
    /\ ArrayLength(mapPromise.val) = mapN
    /\ DOMAIN mapPromise.val = 0..(mapN - 1)
    /\ \A i \in 0..(mapN - 1) :
         /\ mapPromise.val[i].index = i
         /\ mapCtrl.out[i + 1] \in Outcomes
         /\ mapPromise.val[i] = ResultOf(mapCtrl.out[i + 1], i)

\* C9 witness: three tasks, the results were written in the order 1, 0, 2,
\* with a failure among them.
C9_Witness ==
  /\ mapPromise.status = "fulfilled"
  /\ mapN = 3
  /\ mapOrder = <<1, 0, 2>>
  /\ \E i \in 0..2 : mapPromise.val[i].status = "rejected"
  /\ \E i \in 0..2 : mapPromise.val[i].status = "fulfilled"

\* C9 witness (empty list): concurrentMap([]) resolved with an empty array.
C9_EmptyWitness ==
  /\ mapPromise.status = "fulfilled"
  /\ mapN = 0
  /\ ArrayLength(mapPromise.val) = 0

\* C10: concurrentMap never rejects and never short-circuits: its promise
\* is pending as long as any task is unsettled or any outcome unrecorded,
\* and when it resolves every task of the list was invoked and has settled,
\* whatever failed.
C10_SettleAll ==
  /\ mapPromise.status # "rejected"
  /\ (\E t \in MapTasks : mapCtrl.st[t] # "done") => mapPromise.status = "pending"
  /\ mapPromise.status = "fulfilled" =>
       /\ Range(mapCtrl.started) = MapTasks
       /\ \A t \in MapTasks : mapCtrl.st[t] = "done" /\ mapCb[t].status = "fulfilled"

\* C10 witness: the first task failed while the others were still queued,
\* they ran afterwards and the call resolved with all three results.
C10_Witness ==
  /\ mapPromise.status = "fulfilled"
  /\ mapN = 3
  /\ mapCtrl.waited = {2, 3}
  /\ ~mapCtrl.kind[1].throws
  /\ mapPromise.val[0].status = "rejected"
  /\ mapPromise.val[1].status = "fulfilled"
  /\ mapPromise.val[2].status = "fulfilled"

\* C11: during concurrentMap the tasks are invoked in array-index order
\* (the k-th invocation is the task at index k - 1) and at no instant are
\* more than max(1, limit) of them started but unsettled.
MapUnsettled == {t \in TaskIds : mapCtrl.st[t] = "running"}

C11_MapStartsInOrderWithinLimit ==
  /\ \A k \in 1..Len(mapCtrl.started) : mapCtrl.started[k] = k
  /\ Len(mapCtrl.started) <= mapN
  /\ Cardinality(MapUnsettled) <= Max(1, mapLimit)
  /\ Cardinality(InFlight(mapCtrl)) <= Max(1, mapLimit)

\* C11 witness: limit 2, three tasks; the second finished first, the third
\* was started in its slot, and two tasks are unsettled again.
C11_Witness ==
  /\ mapN = 3
  /\ mapLimit = 2
  /\ mapCtrl.started = <<1, 2, 3>>
  /\ mapCtrl.st[2] = "done"
  /\ MapUnsettled = {1, 3}

\* ---------------------------------------------------- batchExecute properties
BatchTasks == 1..bat.n
BatchStarted == Range(bat.started)
BatchInFlight == {t \in TaskIds : bat.st[t] \in {"running", "settled"}}

\* the number of the chunk task t belongs to (0-based), for batchSize >= 1
ChunkOf(t) == (t - 1) \div bat.size

\* ceil(n / b), for b >= 1
ChunkCount == (bat.n + bat.size - 1) \div bat.size

\* C12: with batchSize >= 1 the tasks run in consecutive chunks of
\* batchSize: tasks are invoked in array order, a chunk is started as a
\* whole, no task of a later chunk is started before every task of the
\* earlier chunks has settled and been recorded, and at most batchSize
\* tasks are in flight.
C12_ChunksRunOneAfterAnother ==
  bat.size >= 1 =>
    /\ \A k \in 1..Len(bat.started) : bat.started[k] = k
    /\ \A t \in BatchStarted, u \in BatchTasks :
         ChunkOf(u) = ChunkOf(t) => u \in BatchStarted
    /\ \A t \in BatchStarted, u \in BatchStarted :
         ChunkOf(t) < ChunkOf(u) => bat.st[t] = "done"
    /\ Cardinality(BatchInFlight) <= bat.size

\* C12 witness: three tasks in chunks of two; both tasks of the first
\* chunk have settled, one of them rejected, and the last task is running.
C12_Witness ==
  /\ bat.n = 3 /\ bat.size = 2
  /\ bat.started = <<1, 2, 3>>
  /\ bat.st[1] = "done" /\ bat.st[2] = "done" /\ bat.st[3] = "running"
  /\ ~bat.kind[1].throws /\ ~bat.kind[2].throws
  /\ bat.out[1].status = "rejected"

\* C13: for n >= 1 tasks, batchSize b >= 1 and delay > 0 exactly
\* ceil(n/b) - 1 inter-batch delays are taken: one after each chunk but the
\* last, started when that chunk has fully settled and before the next
\* chunk starts; with delay = 0 (or an empty list) none is taken.
C13_DelaysBetweenChunksOnly ==
  bat.size >= 1 =>
    /\ bat.delay = 0 => bat.delays = 0 /\ bat.pc # "delay"
    /\ bat.n = 0 => bat.delays = 0
    /\ (bat.delay > 0 /\ bat.pc = "batch") => bat.delays = bat.i \div bat.size
    /\ bat.pc = "delay" =>
         /\ bat.delays = (bat.i \div bat.size) + 1
         /\ \A t \in BatchStarted : bat.st[t] = "done"
         /\ Len(bat.started) = bat.i + bat.size
         /\ Len(bat.started) < bat.n
    /\ (bat.pc = "returned" /\ bat.delay > 0 /\ bat.n >= 1) =>
         bat.delays = ChunkCount - 1

\* C13 witness: three tasks in chunks of two with a delay: the call has
\* returned after the chunks 2, 1 and exactly one delay.
C13_Witness ==
  /\ bat.pc = "returned"
  /\ bat.n = 3 /\ bat.size = 2 /\ bat.delay > 0
  /\ bat.delays = 1
  /\ \E t \in BatchTasks : ~bat.kind[t].throws

\* C14: with batchSize >= 1 batchExecute never rejects; it resolves with an
\* array of length tasks.length without holes whose entry g has index g
\* and records the outcome of tasks[g]; every task was run, whatever
\* failed in an earlier chunk.
C14_BatchResultsByGlobalIndex ==
  bat.size >= 1 =>
    /\ bat.promise.status # "rejected"
    /\ bat.pc = "returned" =>
         /\ bat.promise.status = "fulfilled"
         /\ ArrayLength(bat.promise.val) = bat.n
         /\ DOMAIN bat.promise.val = 0..(bat.n - 1)
         /\ BatchStarted = BatchTasks
         /\ \A g \in 0..(bat.n - 1) :
              /\ bat.promise.val[g].index = g
              /\ bat.out[g + 1] \in Outcomes
              /\ bat.promise.val[g] = ResultOf(bat.out[g + 1], g)

\* C14 witness: chunks of two; a task of the first chunk rejected, the task
\* of the second chunk ran and fulfilled, and the call resolved.
C14_Witness ==
  /\ bat.pc = "returned"
  /\ bat.n = 3 /\ bat.size = 2
  /\ bat.promise.status = "fulfilled"
  /\ bat.promise.val[0].status = "rejected"
  /\ bat.promise.val[1].status = "fulfilled"
  /\ bat.promise.val[2].status = "fulfilled"

\* ----------------------------------------------------------- retry properties
RetryFailed(i) == rt.hist[i].status = "rejected"
RetryLast == rt.hist[Len(rt.hist)]

\* C15: for maxRetries >= 0 retry invokes the task exactly k times, k being
\* the position of the first successful attempt, or maxRetries + 1 when
\* none succeeds: no attempt follows a success, it resolves with the first
\* success value, and when all maxRetries + 1 attempts failed it rejects
\* with the reason of the last one.
C15_RetryAttemptsAndResult ==
  rt.maxRetries >= 0 =>
    /\ rt.calls <= rt.maxRetries + 1
    /\ rt.calls = Len(rt.hist) + (IF rt.pc = "attempt" THEN 1 ELSE 0)
    /\ \A i \in 1..(Len(rt.hist) - 1) : RetryFailed(i)
    /\ rt.pc \in {"attempt", "wait"} => \A i \in 1..Len(rt.hist) : RetryFailed(i)
    /\ rt.pc # "returned" => rt.promise.status = "pending"
    /\ rt.pc = "returned" =>
         /\ Len(rt.hist) >= 1
         /\ rt.calls = Len(rt.hist)
         /\ ~RetryFailed(Len(rt.hist)) => rt.promise = Fulfilled(RetryLast.val)
         /\ RetryFailed(Len(rt.hist)) =>
              /\ rt.calls = rt.maxRetries + 1
              /\ rt.promise = Rejected(RetryLast.val)

\* C15 witness: maxRetries = 2, three failed attempts with different
\* reasons; retry rejected with the reason of the third.
C15_Witness ==
  /\ rt.pc = "returned"
  /\ rt.maxRetries = 2
  /\ rt.calls = 3
  /\ rt.hist[1].val # rt.hist[3].val
  /\ rt.promise = Rejected(rt.hist[3].val)

\* C15 witness (first success): one failure, then a success on the second
\* of three allowed attempts.
C15_SuccessWitness ==
  /\ rt.pc = "returned"
  /\ rt.maxRetries = 2
  /\ rt.calls = 2
  /\ rt.promise.status = "fulfilled"

\* C16: attempts are sequential and separated by the fixed delay: an
\* attempt after the first starts only when the previous one has failed
\* and one wait of retryDelay has elapsed, every wait is retryDelay long,
\* and no wait follows a success or the final failure: f failures followed
\* by a success make f waits, an exhausted run makes maxRetries waits.
C16_RetryWaits ==
  rt.maxRetries >= 0 =>
    /\ \A i \in 1..Len(rt.timers) : rt.timers[i] = rt.retryDelay
    /\ rt.pc \in {"attempt", "settled"} => rt.calls = Len(rt.timers) + 1
    /\ rt.pc = "wait" =>
         /\ RetryFailed(Len(rt.hist))
         /\ rt.calls = Len(rt.hist)
         /\ Len(rt.timers) = Len(rt.hist)
         /\ Len(rt.hist) <= rt.maxRetries
    /\ (rt.pc = "returned" /\ rt.promise.status = "fulfilled") =>
         Len(rt.timers) = Cardinality({i \in 1..Len(rt.hist) : RetryFailed(i)})
    /\ (rt.pc = "returned" /\ rt.promise.status = "rejected") =>
         Len(rt.timers) = rt.maxRetries

\* C16 witness: two failures, two waits, then a success.
C16_Witness ==
  /\ rt.pc = "returned"
  /\ rt.promise.status = "fulfilled"
  /\ Len(rt.hist) = 3
  /\ Len(rt.timers) = 2

\* C16 witness (exhausted): all three attempts failed after two waits.
C16_ExhaustedWitness ==
  /\ rt.pc = "returned"
  /\ rt.promise.status = "rejected"
  /\ rt.maxRetries = 2
  /\ Len(rt.timers) = 2

\* ----------------------------------------------------- withTimeout properties
TimeoutFirst == IF wt.events = <<>> THEN "none" ELSE wt.events[1]

\* C17: withTimeout settles once, by the event that happens first: pending
\* before either event; the task's own outcome when the task settled first,
\* also after the timer has fired later; the rejection
\* 'Task timeout after <timeout>ms' when the timer fired first, also after
\* the task has settled later.
C17_FirstEventDecides ==
  /\ TimeoutFirst = "none" => wt.promise = Pending
  /\ TimeoutFirst = "task" =>
       /\ wt.taskOut.status \in {"fulfilled", "rejected"}
       /\ wt.promise = wt.taskOut
  /\ TimeoutFirst = "timer" =>
       /\ wt.promise = Rejected(TimeoutMessage(wt.timeout))
       /\ wt.firedAt = wt.timeout

\* C17 witness: the timer fired first and the task fulfilled afterwards;
\* the promise is still the timeout rejection.
C17_Witness ==
  /\ wt.events = <<"timer", "task">>
  /\ wt.taskOut.status = "fulfilled"
  /\ wt.promise.status = "rejected"
  /\ wt.timeout = 2

\* C17 witness (task first): the task fulfilled, the timer fired later.
C17_TaskFirstWitness ==
  /\ wt.events = <<"task", "timer">>
  /\ wt.promise.status = "fulfilled"

\* C18: when the timer fires first the task is not cancelled: it was
\* invoked exactly once, it is still running when the returned promise has
\* rejected and it can still settle, and when it does its outcome changes
\* nothing.
C18_TaskSurvivesTimeout ==
  TimeoutFirst = "timer" =>
    /\ wt.calls = 1
    /\ wt.promise.status = "rejected"
    /\ Len(wt.events) = 1 =>
         /\ wt.task = "running"
         /\ ENABLED TimeoutTaskSettles
    /\ Len(wt.events) = 2 =>
         /\ wt.task = "settled"
         /\ wt.taskOut \in Outcomes

\* C18 witness: after the timeout the task ran to completion and
\* fulfilled; the returned promise had already rejected.
C18_Witness ==
  /\ wt.events = <<"timer", "task">>
  /\ wt.calls = 1
  /\ wt.task = "settled"
  /\ wt.taskOut.status = "fulfilled"
  /\ wt.promise = Rejected(TimeoutMessage(wt.timeout))

\* ---------------------------------------------------- EventEmitter properties
OnceSubs == {k \in 1..Len(em.subs) : em.subs[k].wrap # 0}

Subscribed(k) ==
  \E i \in 1..Len(em.events[em.subs[k].event]) :
    em.events[em.subs[k].event][i].sub = k

\* C19: a callback registered with once(event, cb) is invoked at most once
\* over any sequence of emits, and after its first invocation it is no
\* longer subscribed, whatever cb does (it may throw, it may emit the same
\* event).
C19_OnceAtMostOnce ==
  \A k \in OnceSubs :
    /\ em.subs[k].calls <= 1
    /\ em.subs[k].calls >= 1 => ~Subscribed(k)

\* a once-callback that only returns was invoked twice by one emit call of
\* the program: an earlier listener emitted the same event, and the outer
\* emit's copy of the array still held the wrapper
C19_PlainTwice ==
  \E k \in OnceSubs :
    /\ em.subs[k].fn = "plain"
    /\ em.subs[k].calls = 2
    /\ em.emits = 1

\* the throwing once-callback has been invoked by two emits
C19_ThrowerTwice ==
  \E k \in OnceSubs :
    /\ em.subs[k].fn = "thrower"
    /\ em.subs[k].calls = 2
    /\ Subscribed(k)

\* the once-callback that emits the same event was invoked twice by one
\* emit call of the program
C19_RelayTwice ==
  \E k \in OnceSubs :
    /\ em.subs[k].fn = "relay"
    /\ em.subs[k].calls = 2
    /\ em.emits = 1

\* the deliveries an emit owes: one per listener present at its start,
\* with the emitted data, in subscription order
Owed(last) ==
  [i \in 1..Len(last.snapshot) |->
     [sub |-> last.snapshot[i].sub, data |-> last.data]]

\* C20: emit never throws and a throwing callback does not stop delivery:
\* every listener present when emit starts is invoked exactly once by it
\* with the emitted data, in subscription order, also after a throw of an
\* earlier listener.
C20_EmitDeliversToAll ==
  em.last.event # "none" =>
    /\ ~em.last.threw
    /\ Len(em.last.log) = Len(em.last.snapshot)
    /\ \A i \in 1..Len(em.last.log) : em.last.log[i] = Owed(em.last)[i]

\* C20 witness: two listeners, the first one threw, the second one was
\* still delivered the data.
C20_Witness ==
  /\ Len(em.last.snapshot) = 2
  /\ em.last.snapshot[1].fn = "thrower"
  /\ em.last.errors >= 1
  /\ ~em.last.threw
  /\ Len(em.last.log) = 2
  /\ em.last.log[2] = [sub |-> em.last.snapshot[2].sub, data |-> em.last.data]

\* the callbacks invoked by an emit of subscription k's event made right
\* after the unsubscribe function of subscription k has been called
InvokedAfterUnsubscribe(k, d) ==
  LET after == EmitCall(Unsubscribe(em, k), em.subs[k].event, d)
  IN {after.subs[after.last.log[i].sub].fn : i \in 1..Len(after.last.log)}

\* the subscriptions of subscription k's callback to its event
Registrations(k) ==
  {j \in 1..Len(em.subs) :
     em.subs[j].event = em.subs[k].event /\ em.subs[j].fn = em.subs[k].fn}

\* C21: after the unsubscribe function returned by on(event, cb) or
\* once(event, cb) has been called, a later emit of that event does not
\* invoke cb, whatever on/once/off calls came before (cb may have been
\* registered more than once); and off(event) with no callback removes
\* every subscriber of that event and leaves the other events' subscribers
\* unchanged.
C21_UnsubscribedNotInvoked ==
  /\ \A k \in 1..Len(em.subs), d \in EventData :
       em.subs[k].fn \notin InvokedAfterUnsubscribe(k, d)
  /\ \A e \in EventNames :
       /\ listenerCount(OffAll(em, e), e) = 0
       /\ \A f \in EventNames \ {e} : OffAll(em, e).events[f] = em.events[f]

\* cb is registered twice with on() and both registrations are in place:
\* the unsubscribe function removes one, the next emit invokes the other
C21_DuplicateStillInvoked ==
  /\ Len(em.subs) = 2
  /\ Registrations(1) = {1, 2}
  /\ Len(em.events[em.subs[1].event]) = 2
  /\ em.subs[1].wrap = 0 /\ em.subs[2].wrap = 0
  /\ em.subs[1].fn \in InvokedAfterUnsubscribe(1, "d2")

\* What holds of the code: the unsubscribe function removes one
\* registration, so a callback registered once on the event is not invoked
\* by the next emit.
C21_SingleRegistrationRemoved ==
  \A k \in 1..Len(em.subs), d \in EventData :
    Registrations(k) = {k} => em.subs[k].fn \notin InvokedAfterUnsubscribe(k, d)

\* C21 (second part): off(event) with no callback removes every subscriber
\* of that event and leaves the other events' subscribers unchanged.
C21_OffAllRemovesOneEvent ==
  \A e \in EventNames :
    /\ OffAll(em, e).events[e] = <<>>
    /\ listenerCount(OffAll(em, e), e) = 0
    /\ \A f \in EventNames \ {e} : OffAll(em, e).events[f] = em.events[f]

\* -------------------------------------------------------- http properties
\* C22: with globalConfig.maxConcurrent = M at most M requests are
\* executing at any time.
C22_AtMostMaxConcurrent ==
  Cardinality(Executing(ht)) <= ht.maxConcurrent

HttpQueued == {i \in 1..Len(ht.req) : ht.req[i].st = "queued"}

HttpSettled == {i \in 1..Len(ht.req) : ht.req[i].promise.status # "pending"}

\* C22 (second part): a request queued because the limit was reached is
\* later dequeued and executed, so that its promise settles.
C22_QueuedRequestSettles ==
  \A i \in 1..MaxRequests :
    (i \in HttpQueued) ~> (i \in HttpSettled)

\* two fetches are in flight with maxConcurrent = 1
C22_OverLimit ==
  /\ ht.maxConcurrent = 1
  /\ Cardinality(Executing(ht)) = 2

\* with maxConcurrent = 0 a request was queued; nothing takes it out of
\* the queue, and cancelAllRequests() has dropped it unsettled
C22_QueuedDropped ==
  /\ ht.maxConcurrent = 0
  /\ HttpQueued # {}
  /\ ht.requestQueue = <<>>

\* the configs of GET requests made with caching enabled
CachedGets == {c \in RequestConfigs : UsesCache(c)}

\* the request that a call of request(config) in state h adds
Made(h, config) == Request(h, config).req[Len(h.req) + 1]

\* request(config) in state h is answered from the cache with data:
\* its promise is fulfilled at once and no fetch is performed
AnsweredFromCache(h, config, data) ==
  /\ Made(h, config).promise = Fulfilled(data)
  /\ ~Made(h, config).fetched
  /\ Executing(Request(h, config)) = Executing(h)

\* request(config) in state h performs a fetch
PerformsFetch(h, config) ==
  /\ Made(h, config).fetched
  /\ Made(h, config).st = "executing"

\* state h, d milliseconds later
Later(h, d) == [h EXCEPT !.now = @ + d]

C23_PatternWitness ==
  /\ \A k \in {CacheKeyOf[c] : c \in CachedGets} : CacheFresh(ht, k)
  /\ \E c \in CachedGets :
       /\ PerformsFetch(clearCache(ht, "users"), c)
       /\ ~PerformsFetch(ht, c)
  /\ \E c \in CachedGets :
       AnsweredFromCache(clearCache(ht, "users"), c,
                         ht.cache[CacheKeyOf[c]].data)

\* after its ttl an entry is no longer used: the same GET fetches again
C23_ExpiredWitness ==
  /\ Len(ht.req) = 2
  /\ UsesCache(ht.req[1].config)
  /\ ht.req[1].promise.status = "fulfilled"
  /\ ht.req[2].config = ht.req[1].config
  /\ ht.req[2].fetched
  /\ ht.now > ht.req[1].config.cacheTime
  /\ ~ht.cache[CacheKeyOf[ht.req[1].config]].present

\* --------------------------------------------------- useRequest properties
\* the most recently started run, once it has settled
LastRunSettled ==
  /\ uq.runs # <<>>
  /\ uq.runs[Len(uq.runs)].promise.status # "pending"

\* C24: once the most recently started run()/refresh() has settled the
\* state reflects that run (after success: not loading, isSuccess, not
\* isError, data is the response data; after failure: not loading,
\* isError, not isSuccess), and isSuccess and isError are never both true.
C24_StateReflectsLastRun ==
  /\ ~(uq.state.isSuccess /\ uq.state.isError)
  /\ LastRunSettled =>
       LET last == uq.runs[Len(uq.runs)].promise
       IN IF last.status = "fulfilled"
            THEN /\ ~uq.state.isLoading
                 /\ uq.state.isSuccess
                 /\ ~uq.state.isError
                 /\ uq.state.data = last.val
            ELSE /\ ~uq.state.isLoading
                 /\ uq.state.isError
                 /\ ~uq.state.isSuccess

\* run() was called while the first run was in flight; the first run was
\* aborted and failed, then the second succeeded: isSuccess and isError are
\* both true
C24_BothFlags ==
  /\ Len(uq.runs) = 2
  /\ uq.runs[1].promise = Rejected("AbortError")
  /\ uq.runs[2].promise.status = "fulfilled"
  /\ uq.state.isSuccess /\ uq.state.isError
  /\ uq.state.error = "AbortError"

\* ------------------------------------------------------ debounce properties
\* C25: for debounce without immediate, since the last call of a burst
\* func is not invoked while the timer is pending; it is invoked exactly
\* once, delay after the last call and with the last call's arguments,
\* unless cancel() came first, which prevents the invocation; flush() while
\* the timer is pending invokes func once at once with the last arguments,
\* and the timer adds no second invocation.
C25_DebounceOncePerBurst ==
  (db.pc = "created" /\ ~db.immediate /\ db.calls > 0) =>
    /\ Len(db.invoked) <= 1
    /\ db.timeoutId.armed =>
         /\ db.invoked = <<>>
         /\ db.timeoutId.due = db.lastCall.at + db.delay
         /\ db.lastArgs = db.lastCall.args
         /\ db.now <= db.timeoutId.due
    /\ (~db.timeoutId.armed /\ db.stopped = "no") =>
         db.invoked = <<[at |-> db.lastCall.at + db.delay,
                         args |-> db.lastCall.args, by |-> "timer"]>>
    /\ db.stopped = "cancel" => db.invoked = <<>> /\ ~db.timeoutId.armed
    /\ db.stopped = "flush" =>
         /\ ~db.timeoutId.armed
         /\ Len(db.invoked) = 1
         /\ db.invoked[1].args = db.lastCall.args
         /\ db.invoked[1].by = "flush"
         /\ db.invoked[1].at < db.lastCall.at + db.delay
              \/ db.invoked[1].at = db.lastCall.at + db.delay

\* C25 witness: a burst of three calls, each less than delay after the one
\* before; func ran once, delay after the third call, with its arguments.
C25_Witness ==
  /\ ~db.immediate /\ db.delay = 2 /\ db.calls = 3
  /\ db.lastCall = [at |-> 2, args |-> "a2"]
  /\ db.invoked = <<[at |-> 4, args |-> "a2", by |-> "timer"]>>

\* C25 witness (cancel): the time of the invocation has passed after a
\* cancel() and func was not invoked.
C25_CancelWitness ==
  /\ ~db.immediate /\ db.stopped = "cancel" /\ db.calls > 0
  /\ db.now > db.lastCall.at + db.delay
  /\ db.invoked = <<>>

\* C25 witness (flush): flush() invoked func before the timer was due and
\* the due time has passed without a second invocation.
C25_FlushWitness ==
  /\ ~db.immediate /\ db.stopped = "flush"
  /\ db.now > db.lastCall.at + db.delay
  /\ Len(db.invoked) = 1
  /\ db.invoked[1].at < db.lastCall.at + db.delay

\* ------------------------------------------------------ throttle properties
\* C26: with the default options (leading and trailing true) and calls of
\* the throttled function only, any two invocations of func are at least
\* delay apart, also when a call arrives at the instant the pending
\* trailing timer is due.
C26_InvocationsDelayApart ==
  (th.pc = "created" /\ th.leading /\ th.trailing /\ ~th.touched) =>
    \A i \in 1..(Len(th.invoked) - 1) :
      th.invoked[i + 1].at - th.invoked[i].at >= th.delay

\* a call arrived at the instant the trailing timer was due and ran first:
\* func was invoked by the call and again by the timer, at the same time
C26_TwiceAtOnce ==
  /\ th.leading /\ th.trailing /\ ~th.touched
  /\ Len(th.invoked) = 3
  /\ th.invoked[3].at = th.invoked[2].at
  /\ th.invoked[2].at = th.invoked[1].at + th.delay

\* What holds of the code: when no call is made at an instant at which the
\* trailing timer is due, two invocations are never closer than delay.
C26_ApartUnlessCallAtDueTime ==
  (th.pc = "created" /\ th.leading /\ th.trailing /\ ~th.touched) =>
    \A i \in 1..(Len(th.invoked) - 1) :
      \/ th.invoked[i + 1].at - th.invoked[i].at >= th.delay
      \/ th.invoked[i + 1].at = th.invoked[i].at

\* C27: every task passed to execute is invoked at most once and is never
\* both queued and running: the number of submitted tasks is runningCount +
\* queueCount + the number of tasks whose run has finished; queueCount grows
\* only by one, on a submission at full capacity, and shrinks only by one
\* per task that finishes and hands its slot to the oldest queued task.
Min(a, b) == IF a <= b THEN a ELSE b

C27_Accounting ==
  /\ Len(ctrl.submitted) =
       runningCount(ctrl) + queueCount(ctrl) + Cardinality(Done(ctrl))
  /\ \A i, j \in 1..Len(ctrl.started) :
       ctrl.started[i] = ctrl.started[j] => i = j
  /\ \A i, j \in 1..Len(ctrl.queue) : ctrl.queue[i] = ctrl.queue[j] => i = j
  /\ Range(ctrl.queue) \cap Range(ctrl.started) = {}
  /\ \A t \in Range(ctrl.queue) : ctrl.st[t] = "queued"

C27_QueueStep ==
  LET grown == queueCount(ctrl') - queueCount(ctrl)
      finished == Done(ctrl') \ Done(ctrl)
  IN /\ grown <= 1
     /\ grown = 1 =>
          /\ Len(ctrl'.submitted) = Len(ctrl.submitted) + 1
          /\ runningCount(ctrl) = ctrl.limit
          /\ runningCount(ctrl') = runningCount(ctrl)
          /\ ctrl'.queue = Append(ctrl.queue, Len(ctrl'.submitted))
     /\ grown < 1 =>
          /\ 0 - grown = Min(Cardinality(finished), queueCount(ctrl))
          /\ ctrl'.queue = SubSeq(ctrl.queue, 1 - grown, Len(ctrl.queue))
          /\ ctrl'.started =
               ctrl.started \o
                 (IF grown = 0 /\ Len(ctrl'.submitted) > Len(ctrl.submitted)
                    THEN <<Len(ctrl'.submitted)>>
                    ELSE SubSeq(ctrl.queue, 1, 0 - grown))
     /\ grown < 0 - 1 => ctrl.kind[ctrl.queue[1]].throws

C27_QueueAccounting == []C27_Accounting /\ [][C27_QueueStep]_vars

\* C27 witness: three tasks were submitted to a controller with one slot;
\* two waited in the queue, the first has finished and handed its slot to
\* the older of the two, the other is still queued.
C27_Witness ==
  /\ ctrl.limit = 1
  /\ Len(ctrl.submitted) = 3
  /\ ctrl.st = [t \in TaskIds |-> IF t = 1 THEN "done" ELSE IF t = 2 THEN "running" ELSE "queued"]
  /\ ctrl.waited = {2, 3}
  /\ ctrl.started = <<1, 2>>
  /\ runningCount(ctrl) = 1
  /\ queueCount(ctrl) = 1

\* ------------------------------------------------- nested-use properties
\* C28: when every one of the limit running tasks awaits the promise of
\* controller.execute(inner) on the same controller, the inner tasks stay
\* queued forever and none of the outer promises ever settles; with
\* limit = 1 one such task is enough.
NestDeadlocked(n) ==
  /\ n.pc = "created"
  /\ runningCount(n.c) = n.c.limit
  /\ Cardinality(NestInFlight(n)) = n.c.limit
  /\ \A t \in NestInFlight(n) :
       /\ t \in n.nesting
       /\ n.c.st[t] = "running"
       /\ n.inner[t] # 0
       /\ n.c.st[n.inner[t]] = "queued"

C28_DeadlockStep ==
  NestDeadlocked(nest) =>
    /\ NestDeadlocked(nest')
    /\ NestInFlight(nest') = NestInFlight(nest)
    /\ \A t \in NestInFlight(nest) :
         /\ nest'.inner[t] = nest.inner[t]
         /\ nest'.c.promise[t] = Pending
         /\ nest'.c.promise[nest.inner[t]] = Pending
         /\ nest.inner[t] \in Range(nest'.c.queue)
    /\ nest'.c.started = nest.c.started

C28_NestedDeadlock == [][C28_DeadlockStep]_vars

\* C28 witness: the controller has two slots, both running tasks await
\* their inner tasks and both inner tasks are queued.
C28_Witness ==
  /\ NestDeadlocked(nest)
  /\ nest.c.limit = 2
  /\ queueCount(nest.c) = 2

\* with limit = 1 a single task awaiting execute on its own controller
C28_SingleTaskWitness ==
  /\ NestDeadlocked(nest)
  /\ nest.c.limit = 1
  /\ Len(nest.c.submitted) = 2
  /\ nest.inner[1] = 2

\* --------------------------------------- controller with withTimeout
\* C29: with tasks wrapped in withTimeout, runningCount never exceeds the
\* limit; a timeout settles the controller's task and so frees its slot
\* while the underlying task keeps running; a task that has left the
\* controller while its underlying task still runs has timed out.  The
\* number of underlying tasks still executing can therefore exceed the
\* limit (C29_Witness).
CtwTimedOut(n) == {t \in CtwUnderway(n) : n.c.st[t] = "done"}

C29_Slots ==
  /\ runningCount(ctw.c) <= ctw.c.limit
  /\ runningCount(ctw.c) = Cardinality({t \in TaskIds : ctw.c.st[t] \in {"running", "settled"}})
  /\ \A t \in CtwTimedOut(ctw) :
       /\ ctw.w[t].events = <<"timer">>
       /\ ctw.c.promise[t] = Rejected(TimeoutMessage(ctw.ms[t]))
  /\ Cardinality(CtwUnderway(ctw)) <= runningCount(ctw.c) + Cardinality(CtwTimedOut(ctw))

C29_TimeoutStep ==
  \A t \in TaskIds :
    /\ (ctw.w[t].task = "running" /\ ctw.w[t].timer = "armed" /\ ctw'.w[t].timer = "fired") =>
         /\ ctw'.w[t].task = "running"
         /\ ctw'.c.st[t] = "settled"
         /\ ctw'.c.out[t] = Rejected(TimeoutMessage(ctw.ms[t]))
    /\ (ctw.w[t].task = "running" /\ ctw.c.st[t] = "settled" /\ ctw'.c.st[t] = "done") =>
         /\ ctw'.w[t].task = "running"
         /\ \/ queueCount(ctw.c) = 0 /\ runningCount(ctw'.c) = runningCount(ctw.c) - 1
            \/ /\ queueCount(ctw.c) > 0
               /\ runningCount(ctw'.c) = runningCount(ctw.c)
               /\ ctw'.w[Head(ctw.c.queue)].task = "running"

C29_TimeoutFreesSlot == []C29_Slots /\ [][C29_TimeoutStep]_vars

\* C29 witness: more underlying tasks are executing than the controller
\* has slots, one of them started from the queue in the slot a timeout freed.
C29_Witness ==
  /\ ctw.pc = "created"
  /\ Cardinality(CtwUnderway(ctw)) > ctw.c.limit
  /\ runningCount(ctw.c) = ctw.c.limit
  /\ CtwTimedOut(ctw) # {}
  /\ \E t \in ctw.c.waited : ctw.w[t].task = "running"

\* ----------------------------------------------- batchExecute, batchSize 0
\* C30: batchExecute with batchSize = 0 and a non-empty task list never
\* resolves and never invokes a task: the loop index stays 0, every chunk
\* is empty, and when delay > 0 every iteration takes an inter-batch delay.
BatchZero == bat.pc # "idle" /\ bat.size = 0 /\ bat.n > 0

C30_ZeroState ==
  BatchZero =>
    /\ bat.pc \in {"batch", "delay"}
    /\ bat.promise = Pending
    /\ bat.i = 0
    /\ BatchChunk(bat) = {}
    /\ bat.started = <<>>
    /\ \A t \in TaskIds : bat.st[t] = "none"
    /\ bat.results = EmptyArray
    /\ bat.delay > 0 => BatchNeedsDelay(bat)
    /\ bat.delay = 0 => bat.pc = "batch" /\ bat.delays = 0

C30_ZeroStep ==
  (BatchZero /\ bat.delay > 0) =>
    /\ bat.pc = "batch" => bat'.pc = "delay" /\ bat'.delays = bat.delays + 1
    /\ bat.pc = "delay" => bat'.pc = "batch" /\ bat'.delays = bat.delays

C30_ZeroBatchSizeNeverResolves == []C30_ZeroState /\ [][C30_ZeroStep]_vars

\* C30 witness: batchSize = 0, three tasks, delay > 0: the loop is in its
\* third iteration, at its third inter-batch delay, and no task was invoked.
C30_Witness ==
  /\ BatchZero
  /\ bat.n = 3
  /\ bat.delay > 0
  /\ bat.pc = "delay"
  /\ bat.delays = 3
  /\ bat.started = <<>>

\* with delay = 0 the loop spins at await Promise.all without a delay
C30_NoDelayWitness ==
  /\ BatchZero
  /\ bat.delay = 0
  /\ bat.pc = "batch"
  /\ BatchAll(bat) = Fulfilled(Undefined)
  /\ BatchAfterAll(bat, BatchAll(bat)) = bat

====
